---- MODULE Spec2Model ----
(***************************************************************************)
(* Model of the DB-API cursor of the ORMDB Python client                   *)
(* (clients/python/ormdb/sqlalchemy/dbapi.py): the statement parser, the   *)
(* request builder, the response materializer and the cursor's state.      *)
(*                                                                         *)
(* Text is a sequence of one-character strings.  Python values are         *)
(* records [t, n, s]: t the type tag, n the number (int, bool), s the text *)
(* (str, float).  An optional value (None or a value) is a sequence of     *)
(* length 0 or 1.  Indices handed to PySlice and returned by Find are      *)
(* Python's: 0-based, -1 for "not found".                                  *)
(***************************************************************************)
EXTENDS Integers, Sequences, FiniteSets, TLC

\* ------------------------------------------------------------ characters

LowerChars == <<"a","b","c","d","e","f","g","h","i","j","k","l","m",
                "n","o","p","q","r","s","t","u","v","w","x","y","z">>

UpperChars == <<"A","B","C","D","E","F","G","H","I","J","K","L","M",
                "N","O","P","Q","R","S","T","U","V","W","X","Y","Z">>

DigitChars == <<"0","1","2","3","4","5","6","7","8","9">>

LowerSet == {LowerChars[i] : i \in 1..Len(LowerChars)}

UpperSet == {UpperChars[i] : i \in 1..Len(UpperChars)}

DigitSet == {DigitChars[i] : i \in 1..Len(DigitChars)}

SpaceSet == {" ", "\t", "\n"}

QuoteSet == {"'", "\""}

\* str.upper() on one character
UpperMap == [c \in LowerSet |-> UpperChars[CHOOSE i \in 1..Len(LowerChars) : LowerChars[i] = c]]

UpperChar(c) == IF c \in LowerSet THEN UpperMap[c] ELSE c

\* str.upper()
UpperStr(s) == [i \in 1..Len(s) |-> UpperChar(s[i])]

\* the regular expression class \w
IsWord(c) == c \in LowerSet \/ c \in UpperSet \/ c \in DigitSet \/ c = "_"

\* the regular expression class \s, and the characters str.strip() removes
IsSpace(c) == c \in SpaceSet

DigitMap == [c \in DigitSet |-> (CHOOSE i \in 1..Len(DigitChars) : DigitChars[i] = c) - 1]

HexLetterSet == {"a","b","c","d","e","f","A","B","C","D","E","F"}

HexLetterMap == [c \in HexLetterSet |->
                   10 + ((CHOOSE i \in 1..6 : UpperChars[i] = UpperChar(c)) - 1)]

IsHexDigit(c) == c \in DigitSet \/ c \in HexLetterSet

HexVal(c) == IF c \in DigitSet THEN DigitMap[c] ELSE HexLetterMap[c]

\* ------------------------------------------------- Python string methods

MinOf(a, b) == IF a < b THEN a ELSE b

MaxOf(a, b) == IF a > b THEN a ELSE b

\* s[a:b] with Python's clamping and negative indices
PySlice(s, a, b) ==
    LET n  == Len(s)
        lo == IF a < 0 THEN MaxOf(a + n, 0) ELSE MinOf(a, n)
        hi == IF b < 0 THEN MaxOf(b + n, 0) ELSE MinOf(b, n)
    IN  IF hi <= lo THEN <<>> ELSE SubSeq(s, lo + 1, hi)

\* s[a:]
PyFrom(s, a) == PySlice(s, a, Len(s))

\* first position p >= i (1-based) whose character is not whitespace;
\* Len(s) + 1 when none (i itself when i is past the end)
SkipSpace(s, i) ==
    IF i > Len(s) THEN i
    ELSE CHOOSE p \in i..(Len(s) + 1) :
             /\ p > Len(s) \/ ~IsSpace(s[p])
             /\ \A q \in i..(p - 1) : IsSpace(s[q])

\* last position p <= j (1-based) whose character is not whitespace; 0 when none
SkipSpaceBack(s, j) ==
    IF j < 1 THEN j
    ELSE CHOOSE p \in 0..j :
             /\ p = 0 \/ ~IsSpace(s[p])
             /\ \A q \in (p + 1)..j : IsSpace(s[q])

\* first position p >= i (1-based) whose character is not a word character
SkipWord(s, i) ==
    IF i > Len(s) THEN i
    ELSE CHOOSE p \in i..(Len(s) + 1) :
             /\ p > Len(s) \/ ~IsWord(s[p])
             /\ \A q \in i..(p - 1) : IsWord(s[q])

\* str.strip()
Strip(s) ==
    LET lo == SkipSpace(s, 1)
        hi == SkipSpaceBack(s, Len(s))
    IN  IF lo > hi THEN <<>> ELSE SubSeq(s, lo, hi)

\* sub occurs in s at 1-based position p
MatchAt(s, sub, p) ==
    /\ p >= 1
    /\ p + Len(sub) - 1 <= Len(s)
    /\ \A k \in 1..Len(sub) : s[p + k - 1] = sub[k]

\* sub occurs in s at 1-based position p, letter case ignored (re.IGNORECASE);
\* sub is written in upper case
MatchAtNoCase(s, sub, p) ==
    /\ p >= 1
    /\ p + Len(sub) - 1 <= Len(s)
    /\ \A k \in 1..Len(sub) : UpperChar(s[p + k - 1]) = sub[k]

\* first 1-based position p >= i where sub occurs in s; Len(s) + 1 when none
FindFrom(s, sub, i) ==
    IF \E p \in i..(Len(s) - Len(sub) + 1) : MatchAt(s, sub, p)
    THEN CHOOSE p \in i..(Len(s) - Len(sub) + 1) :
             /\ MatchAt(s, sub, p)
             /\ \A q \in i..(p - 1) : ~MatchAt(s, sub, q)
    ELSE Len(s) + 1

\* str.find(sub): 0-based index of the first occurrence, -1 when none
Find(s, sub) ==
    LET p == FindFrom(s, sub, 1)
    IN  IF p > Len(s) THEN -1 ELSE p - 1

\* sub in s
Contains(s, sub) == Find(s, sub) # -1

\* str.startswith(prefix)
StartsWith(s, prefix) == MatchAt(s, prefix, 1)

\* str.endswith(suffix)
EndsWith(s, suffix) == MatchAt(s, suffix, Len(s) - Len(suffix) + 1)

\* str.split(sep): every occurrence of sep delimits a part
RECURSIVE Split(_, _)
Split(s, sep) ==
    LET p == FindFrom(s, sep, 1)
    IN  IF p > Len(s) THEN <<s>>
        ELSE <<SubSeq(s, 1, p - 1)>> \o Split(SubSeq(s, p + Len(sep), Len(s)), sep)

\* str.split(sep, 1): split at the first occurrence only
SplitOnce(s, sep) ==
    LET p == FindFrom(s, sep, 1)
    IN  IF p > Len(s) THEN <<s>>
        ELSE <<SubSeq(s, 1, p - 1), SubSeq(s, p + Len(sep), Len(s))>>

\* str.replace(old, ""): every non-overlapping occurrence of old removed
RECURSIVE Remove(_, _)
Remove(s, old) ==
    LET p == FindFrom(s, old, 1)
    IN  IF p > Len(s) THEN s
        ELSE SubSeq(s, 1, p - 1) \o Remove(SubSeq(s, p + Len(old), Len(s)), old)

\* first position p >= i (1-based) whose character is whitespace
SkipNonSpace(s, i) ==
    IF i > Len(s) THEN i
    ELSE CHOOSE p \in i..(Len(s) + 1) :
             /\ p > Len(s) \/ IsSpace(s[p])
             /\ \A q \in i..(p - 1) : ~IsSpace(s[q])

\* str.split()[0]: the first whitespace-delimited token, as an optional value
\* (none when the text holds no token: Python raises IndexError)
FirstToken(s) ==
    LET lo == SkipSpace(s, 1)
    IN  IF lo > Len(s) THEN <<>>
        ELSE <<SubSeq(s, lo, SkipNonSpace(s, lo) - 1)>>

\* a run of digits in which single underscores may separate digits
IsDigitRun(s) ==
    /\ Len(s) >= 1
    /\ s[1] \in DigitSet
    /\ s[Len(s)] \in DigitSet
    /\ \A i \in 1..Len(s) : s[i] \in DigitSet \/ s[i] = "_"
    /\ \A i \in 1..(Len(s) - 1) : ~(s[i] = "_" /\ s[i + 1] = "_")

RECURSIVE DigitsValue(_, _, _)
DigitsValue(s, i, acc) ==
    IF i > Len(s) THEN acc
    ELSE IF s[i] = "_" THEN DigitsValue(s, i + 1, acc)
    ELSE DigitsValue(s, i + 1, 10 * acc + DigitMap[s[i]])

IsSign(c) == c = "+" \/ c = "-"

\* text with a leading sign removed
Unsigned(s) == IF Len(s) >= 1 /\ IsSign(s[1]) THEN SubSeq(s, 2, Len(s)) ELSE s

\* first position p >= i (1-based) that holds neither "0" nor "_"
SkipZeros(s, i) ==
    IF i > Len(s) THEN i
    ELSE CHOOSE p \in i..(Len(s) + 1) :
             /\ p > Len(s) \/ s[p] \notin {"0", "_"}
             /\ \A q \in i..(p - 1) : s[q] \in {"0", "_"}

\* The integers of Python are unbounded: an int is kept as its decimal text,
\* str(n): the digits without leading zeros, "-" in front of a negative one.
Decimal(negative, body) ==
    LET digits == Remove(SubSeq(body, SkipZeros(body, 1), Len(body)), <<"_">>)
    IN  IF digits = <<>> THEN <<"0">>
        ELSE IF negative THEN <<"-">> \o digits
        ELSE digits

\* int(text): [ok, s]; ok FALSE when Python raises ValueError
PyInt(text) ==
    LET Parsed(s, body) ==
            IF IsDigitRun(body)
            THEN [ok |-> TRUE, s |-> Decimal(s[1] = "-", body)]
            ELSE [ok |-> FALSE, s |-> <<>>]
    IN  Parsed(Strip(text), Unsigned(Strip(text)))

\* a < b for two digit texts of the same length
RECURSIVE DigitsLess(_, _, _)
DigitsLess(a, b, i) ==
    IF i > Len(a) THEN FALSE
    ELSE IF a[i] # b[i] THEN DigitMap[a[i]] < DigitMap[b[i]]
    ELSE DigitsLess(a, b, i + 1)

\* a < b for the magnitudes of two decimal texts
MagnitudeLess(a, b) ==
    IF Len(a) # Len(b) THEN Len(a) < Len(b) ELSE DigitsLess(a, b, 1)

\* a < b for two ints kept as decimal texts
DecLess(a, b) ==
    LET na == a[1] = "-"
        nb == b[1] = "-"
    IN  IF na /\ ~nb THEN TRUE
        ELSE IF ~na /\ nb THEN FALSE
        ELSE IF na THEN MagnitudeLess(Unsigned(b), Unsigned(a))
        ELSE MagnitudeLess(a, b)

\* the number a decimal text of a small int stands for
SmallInt(s) ==
    IF s[1] = "-" THEN 0 - DigitsValue(s, 2, 0) ELSE DigitsValue(s, 1, 0)

\* float(text) succeeds (FALSE when Python raises ValueError)
PyFloatOk(text) ==
    LET Fraction(ipart, fpart) ==
            /\ ipart # <<>> \/ fpart # <<>>
            /\ ipart = <<>> \/ IsDigitRun(ipart)
            /\ fpart = <<>> \/ IsDigitRun(fpart)
        Mantissa(mant, dot) ==
            IF dot > Len(mant) THEN IsDigitRun(mant)
            ELSE Fraction(SubSeq(mant, 1, dot - 1), SubSeq(mant, dot + 1, Len(mant)))
        Number(body, epos) ==
            /\ epos > Len(body) \/ IsDigitRun(Unsigned(SubSeq(body, epos + 1, Len(body))))
            /\ Mantissa(SubSeq(body, 1, epos - 1),
                        FindFrom(SubSeq(body, 1, epos - 1), <<".">>, 1))
        Float(body, ubody) ==
            \/ ubody \in {<<"I","N","F">>, <<"N","A","N">>,
                          <<"I","N","F","I","N","I","T","Y">>}
            \/ Number(body, FindFrom(ubody, <<"E">>, 1))
    IN  Float(Unsigned(Strip(text)), UpperStr(Unsigned(Strip(text))))

\* int(text, 16) of a two-character slice: [ok, n]
PyHexPair(text) ==
    LET Value(body) ==
            IF Len(body) = 1 THEN HexVal(body[1])
            ELSE 16 * HexVal(body[1]) + HexVal(body[2])
        Pair(s, body) ==
            IF /\ Len(body) >= 1
               /\ \A i \in 1..Len(body) : IsHexDigit(body[i])
            THEN [ok |-> TRUE, n |-> IF s[1] = "-" THEN 0 - Value(body) ELSE Value(body)]
            ELSE [ok |-> FALSE, n |-> 0]
    IN  Pair(Strip(text), Unsigned(Strip(text)))

\* ------------------------------------------------------- Python values

NoneVal == [t |-> "none", n |-> 0, s |-> <<>>]

BoolVal(b) == [t |-> "bool", n |-> IF b THEN 1 ELSE 0, s |-> <<>>]

\* an int keeps its decimal text
IntVal(s) == [t |-> "int", n |-> 0, s |-> s]

\* a float keeps the text it was parsed from
FloatVal(s) == [t |-> "float", n |-> 0, s |-> s]

StrVal(s) == [t |-> "str", n |-> 0, s |-> s]

\* Cursor._parse_sql_value
ParseSqlValue(text) ==
    LET Number(value_str, as_int) ==
            IF as_int.ok THEN IntVal(as_int.s) ELSE StrVal(value_str)
        Value(value_str, u) ==
            IF \/ StartsWith(value_str, <<"'">>) /\ EndsWith(value_str, <<"'">>)
               \/ StartsWith(value_str, <<"\"">>) /\ EndsWith(value_str, <<"\"">>)
            THEN StrVal(PySlice(value_str, 1, -1))
            ELSE IF u = <<"N","U","L","L">> THEN NoneVal
            ELSE IF u = <<"T","R","U","E">> THEN BoolVal(TRUE)
            ELSE IF u = <<"F","A","L","S","E">> THEN BoolVal(FALSE)
            ELSE IF Contains(value_str, <<".">>)
                 THEN IF PyFloatOk(value_str) THEN FloatVal(value_str)
                      ELSE StrVal(value_str)
            ELSE Number(value_str, PyInt(value_str))
    IN  Value(Strip(text), UpperStr(Strip(text)))

\* the loop of Cursor._parse_value_list from character i on:
\* st = [values, current, in_quotes, quote_char]
RECURSIVE ValueListLoop(_, _, _)
ValueListLoop(s, i, st) ==
    IF i > Len(s) THEN st
    ELSE LET char == s[i]
         IN  IF char \in QuoteSet /\ ~st.in_quotes
             THEN ValueListLoop(s, i + 1,
                      [st EXCEPT !.in_quotes = TRUE, !.quote_char = <<char>>,
                                 !.current = st.current \o <<char>>])
             ELSE IF st.quote_char = <<char>> /\ st.in_quotes
             THEN ValueListLoop(s, i + 1,
                      [st EXCEPT !.in_quotes = FALSE, !.quote_char = <<>>,
                                 !.current = st.current \o <<char>>])
             ELSE IF char = "," /\ ~st.in_quotes
             THEN ValueListLoop(s, i + 1,
                      [st EXCEPT !.values = Append(st.values, ParseSqlValue(Strip(st.current))),
                                 !.current = <<>>])
             ELSE ValueListLoop(s, i + 1, [st EXCEPT !.current = st.current \o <<char>>])

\* Cursor._parse_value_list
ParseValueList(values_str) ==
    LET Last(st, current) ==
            IF current # <<>> THEN Append(st.values, ParseSqlValue(current))
            ELSE st.values
        Values(st) == Last(st, Strip(st.current))
    IN  Values(ValueListLoop(values_str, 1,
                   [values |-> <<>>, current |-> <<>>, in_quotes |-> FALSE,
                    quote_char |-> <<>>]))

\* -(2**31)
Int32Min == <<"-","2","1","4","7","4","8","3","6","4","8">>

\* 2**31
Int32End == <<"2","1","4","7","4","8","3","6","4","8">>

\* Cursor._convert_value with "value <= 2**31" for the upper end of Int32
ConvertValueInclusiveEnd(value) ==
    IF value.t = "none" THEN [tag |-> "Null", v |-> value]
    ELSE IF value.t = "bool" THEN [tag |-> "Bool", v |-> value]
    ELSE IF value.t = "int"
         THEN IF ~DecLess(value.s, Int32Min) /\ ~DecLess(Int32End, value.s)
              THEN [tag |-> "Int32", v |-> value]
              ELSE [tag |-> "Int64", v |-> value]
    ELSE IF value.t = "float" THEN [tag |-> "Float64", v |-> value]
    ELSE [tag |-> "String", v |-> value]

\* Cursor._convert_value: the tagged wire value of a Python value
ConvertValue(value) ==
    IF value.t = "none" THEN [tag |-> "Null", v |-> value]
    ELSE IF value.t = "bool" THEN [tag |-> "Bool", v |-> value]
    ELSE IF value.t = "int"
         THEN IF ~DecLess(value.s, Int32Min) /\ DecLess(value.s, Int32End)
              THEN [tag |-> "Int32", v |-> value]
              ELSE [tag |-> "Int64", v |-> value]
    ELSE IF value.t = "float" THEN [tag |-> "Float64", v |-> value]
    ELSE [tag |-> "String", v |-> value]

UuidHexLen == 32

\* Cursor._hex_to_uuid: [exc, bytes]
HexToUuid(text) ==
    LET Bytes(pairs) ==
            IF \E i \in 1..(UuidHexLen \div 2) : ~pairs[i].ok
            THEN [exc |-> "ValueError", bytes |-> <<>>]
            ELSE [exc |-> "none", bytes |-> [i \in 1..(UuidHexLen \div 2) |-> pairs[i].n]]
        Uuid(hex_str) ==
            IF Len(hex_str) # UuidHexLen
            THEN [exc |-> "ProgrammingError", bytes |-> <<>>]
            ELSE Bytes([i \in 1..(UuidHexLen \div 2) |->
                           PyHexPair(PySlice(hex_str, 2 * (i - 1), 2 * i))])
    IN  Uuid(Remove(text, <<"-">>))

\* ----------------------------------------------------------- WHERE clause

\* the alternatives with < and > ahead of <=, >= and <>
WhereOpsShortestFirst ==
    << <<"=">>, <<"!","=">>, <<"<">>, <<">">>, <<"<",">">>, <<"<","=">>, <<">","=">>,
       <<"L","I","K","E">>, <<"I","N">> >>

\* the alternatives of the operator group of the WHERE pattern, in the
\* order the pattern lists them
WhereOps == << <<"=">>, <<"!","=">>, <<"<",">">>, <<"<","=">>, <<">","=">>,
               <<"<">>, <<">">>, <<"L","I","K","E">>, <<"I","N">> >>

\* op_map of Cursor._parse_where, with its default "eq"
OpMap(op) ==
    IF op = <<"=">> THEN "eq"
    ELSE IF op = <<"!","=">> THEN "ne"
    ELSE IF op = <<"<",">">> THEN "ne"
    ELSE IF op = <<"<">> THEN "lt"
    ELSE IF op = <<">">> THEN "gt"
    ELSE IF op = <<"<","=">> THEN "le"
    ELSE IF op = <<">","=">> THEN "ge"
    ELSE IF op = <<"L","I","K","E">> THEN "like"
    ELSE IF op = <<"I","N">> THEN "in"
    ELSE "eq"

\* first position p >= i (1-based) that holds a newline; Len(s) + 1 when none
LineEnd(s, i) == FindFrom(s, <<"\n">>, i)

\* \s*(.+) of the WHERE pattern from position q: the start of group 3, the
\* greedy \s* giving characters back until (.+) has one to take; 0: no match
WhereValueStart(s, q) ==
    LET starts == {t \in q..SkipSpace(s, q) : t <= Len(s) /\ s[t] # "\n"}
    IN  IF starts = {} THEN 0
        ELSE CHOOSE t \in starts : \A t2 \in starts : t2 <= t

\* the WHERE pattern with (\w+) taking the first k characters:
\* the first alternative of the operator group that lets the rest match
WhereTry(s, k) ==
    LET Matched(p, a, t) ==
            [ok |-> TRUE,
             field |-> SubSeq(s, 1, k),
             op |-> UpperStr(SubSeq(s, p, p + Len(WhereOps[a]) - 1)),
             value_str |-> SubSeq(s, t, LineEnd(s, t) - 1)]
        First(p, a) == Matched(p, a, WhereValueStart(s, p + Len(WhereOps[a])))
        Alternatives(p, alts) ==
            IF alts = {}
            THEN [ok |-> FALSE, field |-> <<>>, op |-> <<>>, value_str |-> <<>>]
            ELSE First(p, CHOOSE x \in alts : \A y \in alts : x <= y)
        Operator(p) ==
            Alternatives(p, {a \in 1..Len(WhereOps) :
                                /\ MatchAtNoCase(s, WhereOps[a], p)
                                /\ WhereValueStart(s, p + Len(WhereOps[a])) # 0})
    IN  Operator(SkipSpace(s, k + 1))

\* re.match(r"(\w+)\s*(=|!=|<>|<=|>=|<|>|LIKE|IN)\s*(.+)", s, re.IGNORECASE):
\* the greedy (\w+) gives characters back until the rest matches
WhereMatch(s) ==
    LET Longest(ks) ==
            IF ks = {} THEN [ok |-> FALSE, field |-> <<>>, op |-> <<>>, value_str |-> <<>>]
            ELSE WhereTry(s, CHOOSE k \in ks : \A k2 \in ks : k2 <= k)
    IN  Longest({k \in 1..(SkipWord(s, 1) - 1) : WhereTry(s, k).ok})

NoFilter == [field |-> <<>>, op |-> "", value |-> NoneVal]

\* Cursor._parse_where: [exc, filter]
ParseWhere(where_clause) ==
    LET Filter(match) ==
            IF ~match.ok THEN [exc |-> "ProgrammingError", filter |-> NoFilter]
            ELSE [exc |-> "none",
                  filter |-> [field |-> match.field,
                              op    |-> OpMap(match.op),
                              value |-> ParseSqlValue(Strip(match.value_str))]]
    IN  Filter(WhereMatch(where_clause))

\* --------------------------------------------------------------- ORDER BY

\* one item of the loop of Cursor._parse_order_by
OrderItem(text) ==
    LET Item(part, u) ==
            IF Contains(u, <<" ","D","E","S","C">>)
            THEN [field |-> Strip(Remove(u, <<" ","D","E","S","C">>)), direction |-> "desc"]
            ELSE IF Contains(u, <<" ","A","S","C">>)
            THEN [field |-> Strip(Remove(u, <<" ","A","S","C">>)), direction |-> "asc"]
            ELSE [field |-> part, direction |-> "asc"]
    IN  Item(Strip(text), UpperStr(Strip(text)))

\* Cursor._parse_order_by
ParseOrderBy(order_clause) ==
    LET Items(parts) == [i \in 1..Len(parts) |-> OrderItem(parts[i])]
    IN  Items(Split(order_clause, <<",">>))

\* ------------------------------------------------- INSERT, UPDATE, DELETE

\* d[k] = v on a Python dict kept as the sequence of its items in insertion
\* order: an existing key keeps its place and takes the new value
RECURSIVE DictSet(_, _, _)
DictSet(d, k, v) ==
    IF d = <<>> THEN <<[field |-> k, value |-> v]>>
    ELSE IF Head(d).field = k THEN <<[field |-> k, value |-> v]>> \o Tail(d)
    ELSE <<Head(d)>> \o DictSet(Tail(d), k, v)

\* dict(zip(fields, values)) from pair i on
RECURSIVE DictZip(_, _, _, _)
DictZip(fields, values, i, d) ==
    IF i > Len(fields) \/ i > Len(values) THEN d
    ELSE DictZip(fields, values, i + 1, DictSet(d, fields[i], values[i]))

\* one character c at position p
CharAt(s, c, p) == p >= 1 /\ p <= Len(s) /\ s[p] = c

SpaceAt(s, p) == p >= 1 /\ p <= Len(s) /\ IsSpace(s[p])

StripAll(parts) == [i \in 1..Len(parts) |-> Strip(parts[i])]

\* re.match(r"INSERT\s+INTO\s+(\w+)\s*\(([^)]+)\)\s*VALUES\s*\(([^)]+)\)", sql,
\* re.IGNORECASE): [ok, g1, g2, g3]
InsertMatch(s) ==
    LET Groups(p4, p5, p6, p7, p8, p10, p11) ==
            IF /\ p5 > p4
               /\ CharAt(s, "(", p6)
               /\ p7 <= Len(s) /\ p7 > p6 + 1
               /\ MatchAtNoCase(s, <<"V","A","L","U","E","S">>, p8)
               /\ CharAt(s, "(", p10)
               /\ p11 <= Len(s) /\ p11 > p10 + 1
            THEN [ok |-> TRUE, g1 |-> SubSeq(s, p4, p5 - 1),
                  g2 |-> SubSeq(s, p6 + 1, p7 - 1), g3 |-> SubSeq(s, p10 + 1, p11 - 1)]
            ELSE [ok |-> FALSE, g1 |-> <<>>, g2 |-> <<>>, g3 |-> <<>>]
        Values(p4, p5, p6, p7, p8, p10) ==
            Groups(p4, p5, p6, p7, p8, p10, FindFrom(s, <<")">>, p10 + 1))
        Keyword(p4, p5, p6, p7, p8) == Values(p4, p5, p6, p7, p8, SkipSpace(s, p8 + 6))
        Columns(p4, p5, p6, p7) == Keyword(p4, p5, p6, p7, SkipSpace(s, p7 + 1))
        Paren(p4, p5, p6) == Columns(p4, p5, p6, FindFrom(s, <<")">>, p6 + 1))
        Entity(p4, p5) == Paren(p4, p5, SkipSpace(s, p5))
        Into(p2) ==
            IF /\ MatchAtNoCase(s, <<"I","N","S","E","R","T">>, 1)
               /\ SpaceAt(s, 7)
               /\ MatchAtNoCase(s, <<"I","N","T","O">>, p2)
               /\ SpaceAt(s, p2 + 4)
            THEN Entity(SkipSpace(s, p2 + 4), SkipWord(s, SkipSpace(s, p2 + 4)))
            ELSE [ok |-> FALSE, g1 |-> <<>>, g2 |-> <<>>, g3 |-> <<>>]
    IN  Into(SkipSpace(s, 7))

\* Cursor._parse_insert: [exc, entity, data]
ParseInsert(sql) ==
    LET Data(match, fields, values) ==
            IF Len(fields) # Len(values)
            THEN [exc |-> "ProgrammingError", entity |-> <<>>, data |-> <<>>]
            ELSE [exc |-> "none", entity |-> match.g1,
                  data |-> DictZip(fields, values, 1, <<>>)]
        Insert(match) ==
            IF ~match.ok
            THEN [exc |-> "ProgrammingError", entity |-> <<>>, data |-> <<>>]
            ELSE Data(match, StripAll(Split(match.g2, <<",">>)), ParseValueList(match.g3))
    IN  Insert(InsertMatch(sql))

\* first position p >= i (1-based) that holds a quote; Len(s) + 1 when none
QuoteEnd(s, i) == MinOf(FindFrom(s, <<"'">>, i), FindFrom(s, <<"\"">>, i))

\* \s*['\"]?([^'\"]+)['\"]? from position p: [ok, g]; the greedy \s* gives
\* one character back when nothing but a quote, or nothing, follows it
IdMatch(s, p) ==
    LET Id(start) ==
            IF start = 0 THEN [ok |-> FALSE, g |-> <<>>]
            ELSE [ok |-> TRUE, g |-> SubSeq(s, start, QuoteEnd(s, start) - 1)]
        Start(q) ==
            Id(IF q <= Len(s) /\ s[q] \in QuoteSet
               THEN IF q + 1 <= Len(s) /\ s[q + 1] \notin QuoteSet THEN q + 1
                    ELSE IF q > p THEN q - 1 ELSE 0
               ELSE IF q <= Len(s) THEN q
               ELSE IF q > p THEN q - 1 ELSE 0)
    IN  Start(SkipSpace(s, p))

\* \s+WHERE\s+id\s*=\s*['\"]?([^'\"]+)['\"]? from position p: [ok, g]
WhereIdMatch(s, p) ==
    LET Equals(q1, q2, q3) ==
            IF /\ SpaceAt(s, p)
               /\ MatchAtNoCase(s, <<"W","H","E","R","E">>, q1)
               /\ SpaceAt(s, q1 + 5)
               /\ MatchAtNoCase(s, <<"I","D">>, q2)
               /\ CharAt(s, "=", q3)
            THEN IdMatch(s, q3 + 1)
            ELSE [ok |-> FALSE, g |-> <<>>]
        Column(q1, q2) == Equals(q1, q2, SkipSpace(s, q2 + 2))
        Keyword(q1) == Column(q1, SkipSpace(s, q1 + 5))
    IN  Keyword(SkipSpace(s, p))

\* (.+)\s+WHERE... with (.+) starting at position a: the end of group 2, the
\* greedy (.+) giving characters back until the rest matches; 0: no match
SetClauseEnd(s, a) ==
    LET Last(ends) ==
            IF ends = {} THEN 0
            ELSE CHOOSE e \in ends : \A e2 \in ends : e2 <= e
    IN  Last({e \in a..(LineEnd(s, a) - 1) : WhereIdMatch(s, e + 1).ok})

\* re.match(r"UPDATE\s+(\w+)\s+SET\s+(.+)\s+WHERE\s+id\s*=\s*['\"]?([^'\"]+)['\"]?",
\* sql, re.IGNORECASE): [ok, g1, g2, g3]
UpdateMatch(s) ==
    LET Groups(p2, p3, a, e) ==
            [ok |-> TRUE, g1 |-> SubSeq(s, p2, p3 - 1),
             g2 |-> SubSeq(s, a, e), g3 |-> WhereIdMatch(s, e + 1).g]
        Clause(p2, p3, a) == Groups(p2, p3, a, SetClauseEnd(s, a))
        Assignments(p2, p3, p4, starts) ==
            IF /\ MatchAtNoCase(s, <<"U","P","D","A","T","E">>, 1)
               /\ SpaceAt(s, 7)
               /\ p3 > p2
               /\ SpaceAt(s, p3)
               /\ MatchAtNoCase(s, <<"S","E","T">>, p4)
               /\ SpaceAt(s, p4 + 3)
               /\ starts # {}
            THEN Clause(p2, p3, CHOOSE x \in starts : \A y \in starts : y <= x)
            ELSE [ok |-> FALSE, g1 |-> <<>>, g2 |-> <<>>, g3 |-> <<>>]
        Set(p2, p3, p4) ==
            Assignments(p2, p3, p4,
                {a \in (p4 + 4)..SkipSpace(s, p4 + 3) : SetClauseEnd(s, a) # 0})
        Entity(p2, p3) == Set(p2, p3, SkipSpace(s, p3))
        Update(p2) == Entity(p2, SkipWord(s, p2))
    IN  Update(SkipSpace(s, 7))

\* the loop over the assignments of Cursor._parse_update from assignment i on:
\* [exc, data]; "ValueError" when an assignment holds no "="
RECURSIVE SetLoop(_, _, _)
SetLoop(assignments, i, data) ==
    LET Assign(pair) ==
            IF Len(pair) # 2 THEN [exc |-> "ValueError", data |-> <<>>]
            ELSE SetLoop(assignments, i + 1,
                         DictSet(data, Strip(pair[1]), ParseSqlValue(Strip(pair[2]))))
    IN  IF i > Len(assignments) THEN [exc |-> "none", data |-> data]
        ELSE Assign(SplitOnce(assignments[i], <<"=">>))

\* Cursor._parse_update: [exc, entity, entity_id, data]
ParseUpdate(sql) ==
    LET Data(match, loop) ==
            IF loop.exc # "none"
            THEN [exc |-> loop.exc, entity |-> <<>>, entity_id |-> <<>>, data |-> <<>>]
            ELSE [exc |-> "none", entity |-> match.g1, entity_id |-> Strip(match.g3),
                  data |-> loop.data]
        Update(match) ==
            IF ~match.ok
            THEN [exc |-> "ProgrammingError", entity |-> <<>>, entity_id |-> <<>>,
                  data |-> <<>>]
            ELSE Data(match, SetLoop(Split(match.g2, <<",">>), 1, <<>>))
    IN  Update(UpdateMatch(sql))

\* re.match(r"DELETE\s+FROM\s+(\w+)\s+WHERE\s+id\s*=\s*['\"]?([^'\"]+)['\"]?", sql,
\* re.IGNORECASE): [ok, g1, g2]
DeleteMatch(s) ==
    LET Groups(p4, p5, id) ==
            IF p5 > p4 /\ id.ok
            THEN [ok |-> TRUE, g1 |-> SubSeq(s, p4, p5 - 1), g2 |-> id.g]
            ELSE [ok |-> FALSE, g1 |-> <<>>, g2 |-> <<>>]
        Entity(p4, p5) == Groups(p4, p5, WhereIdMatch(s, p5))
        From(p2) ==
            IF /\ MatchAtNoCase(s, <<"D","E","L","E","T","E">>, 1)
               /\ SpaceAt(s, 7)
               /\ MatchAtNoCase(s, <<"F","R","O","M">>, p2)
               /\ SpaceAt(s, p2 + 4)
            THEN Entity(SkipSpace(s, p2 + 4), SkipWord(s, SkipSpace(s, p2 + 4)))
            ELSE [ok |-> FALSE, g1 |-> <<>>, g2 |-> <<>>]
    IN  From(SkipSpace(s, 7))

\* Cursor._parse_delete: [exc, entity, entity_id]
ParseDelete(sql) ==
    LET Delete(match) ==
            IF ~match.ok
            THEN [exc |-> "ProgrammingError", entity |-> <<>>, entity_id |-> <<>>]
            ELSE [exc |-> "none", entity |-> match.g1, entity_id |-> Strip(match.g2)]
    IN  Delete(DeleteMatch(sql))

\* ------------------------------------------------------------------ SELECT

\* the smallest of the indices that are not -1, as an optional value
MinFound(indices) ==
    LET found == {i \in indices : i # -1}
    IN  IF found = {} THEN <<>>
        ELSE <<CHOOSE i \in found : \A j \in found : i <= j>>

SelectFailed(error) ==
    [exc |-> error, entity |-> <<>>, fields |-> <<>>, filter_expr |-> <<>>,
     order_by |-> <<>>, limit |-> <<>>, offset |-> <<>>]

\* Cursor._parse_select: [exc, entity, fields, filter_expr, order_by, limit,
\* offset]; filter_expr, order_by, limit and offset are optional values
ParseSelect(text) ==
    LET \* int(...) of a number text, as an optional small number: [exc, n]
        IntOf(parsed) ==
            IF parsed.ok THEN [exc |-> "none", n |-> <<SmallInt(parsed.s)>>]
            ELSE [exc |-> "ValueError", n |-> <<>>]
        \* int(s.split()[0]), given the optional first token of s
        TokenInt(token) ==
            IF token = <<>> THEN [exc |-> "IndexError", n |-> <<>>]
            ELSE IntOf(PyInt(token[1]))
        EndOf(found, remaining) ==
            IF found # <<>> THEN found[1] ELSE Len(remaining)
        \* "Parse WHERE clause": [exc, filter_expr]
        WhereOf(parsed) ==
            [exc |-> parsed.exc,
             filter_expr |-> IF parsed.exc = "none" THEN <<parsed.filter>> ELSE <<>>]
        WhereClause(remaining, at) ==
            IF at.where_idx = -1 THEN [exc |-> "none", filter_expr |-> <<>>]
            ELSE WhereOf(ParseWhere(Strip(PySlice(remaining, at.where_idx + 7,
                     EndOf(MinFound({at.order_idx, at.limit_idx}), remaining)))))
        \* "Parse ORDER BY clause"
        OrderClause(remaining, at) ==
            IF at.order_idx = -1 THEN <<>>
            ELSE <<ParseOrderBy(Strip(PySlice(remaining, at.order_idx + 10,
                       IF at.limit_idx # -1 THEN at.limit_idx ELSE Len(remaining))))>>
        \* "Parse LIMIT and OFFSET": [exc, limit, offset]
        LimitPair(limit_int, offset_int) ==
            IF limit_int.exc # "none"
            THEN [exc |-> limit_int.exc, limit |-> <<>>, offset |-> <<>>]
            ELSE IF offset_int.exc # "none"
            THEN [exc |-> offset_int.exc, limit |-> <<>>, offset |-> <<>>]
            ELSE [exc |-> "none", limit |-> limit_int.n, offset |-> offset_int.n]
        LimitOf(limit_str, offset_in_limit) ==
            IF offset_in_limit # -1
            THEN LimitPair(IntOf(PyInt(Strip(PySlice(limit_str, 0, offset_in_limit)))),
                           IntOf(PyInt(Strip(PyFrom(limit_str, offset_in_limit + 8)))))
            ELSE LimitPair(TokenInt(FirstToken(limit_str)), [exc |-> "none", n |-> <<>>])
        LimitStr(limit_str) ==
            LimitOf(limit_str, Find(UpperStr(limit_str), <<" ","O","F","F","S","E","T"," ">>))
        LimitClause(remaining, at) ==
            IF at.limit_idx = -1 THEN [exc |-> "none", limit |-> <<>>, offset |-> <<>>]
            ELSE LimitStr(Strip(PyFrom(remaining, at.limit_idx + 7)))
        \* "if offset_idx != -1 and offset is None": [exc, n]
        OffsetClause(remaining, at, limits) ==
            IF at.offset_idx # -1 /\ limits.offset = <<>>
            THEN TokenInt(FirstToken(Strip(PyFrom(remaining, at.offset_idx + 8))))
            ELSE [exc |-> "none", n |-> limits.offset]
        \* the statements in the order the code runs them
        Parsed(entity, fields, filter, order_by, limits, offset) ==
            IF filter.exc # "none" THEN SelectFailed(filter.exc)
            ELSE IF limits.exc # "none" THEN SelectFailed(limits.exc)
            ELSE IF offset.exc # "none" THEN SelectFailed(offset.exc)
            ELSE [exc |-> "none", entity |-> entity, fields |-> fields,
                  filter_expr |-> filter.filter_expr, order_by |-> order_by,
                  limit |-> limits.limit, offset |-> offset.n]
        Limited(remaining, at, fields, limits) ==
            Parsed(Strip(PySlice(remaining, 0,
                       EndOf(MinFound({at.where_idx, at.order_idx, at.limit_idx}), remaining))),
                   fields, WhereClause(remaining, at), OrderClause(remaining, at),
                   limits, OffsetClause(remaining, at, limits))
        Clauses(remaining, at, fields) ==
            Limited(remaining, at, fields, LimitClause(remaining, at))
        Remaining(remaining, u, fields) ==
            Clauses(remaining,
                    [where_idx  |-> Find(u, <<" ","W","H","E","R","E"," ">>),
                     order_idx  |-> Find(u, <<" ","O","R","D","E","R"," ","B","Y"," ">>),
                     limit_idx  |-> Find(u, <<" ","L","I","M","I","T"," ">>),
                     offset_idx |-> Find(u, <<" ","O","F","F","S","E","T"," ">>)],
                    fields)
        From(sql, from_idx) ==
            IF from_idx = -1 THEN SelectFailed("ProgrammingError")
            ELSE Remaining(Strip(PyFrom(sql, from_idx + 6)),
                           UpperStr(Strip(PyFrom(sql, from_idx + 6))),
                           StripAll(Split(Strip(PySlice(sql, 0, from_idx)), <<",">>)))
        Sql(sql) == From(sql, Find(UpperStr(sql), <<" ","F","R","O","M"," ">>))
    IN  Sql(Strip(PyFrom(text, 6)))

\* ------------------------------------------------------------- statements

\* SELECT * FROM User
SelectAll ==
    <<"S","E","L","E","C","T"," ","*"," ","F","R","O","M"," ","U","s","e","r">>

\* SELECT id,name FROM User WHERE status='active' ORDER BY name ASC LIMIT 10
SelectFull ==
    <<"S","E","L","E","C","T"," ","i","d",",","n","a","m","e"," ","F","R","O","M"," ","U","s","e","r"," ","W","H","E","R","E"," ","s","t","a","t","u","s","=","'","a","c","t","i","v","e","'"," ","O","R","D","E","R"," ","B","Y"," ","n","a","m","e"," ","A","S","C"," ","L","I","M","I","T"," ","1","0">>

\*   select name from User  
SelectPadded ==
    <<" "," ","s","e","l","e","c","t"," ","n","a","m","e"," ","f","r","o","m"," ","U","s","e","r"," "," ">>

\* SELECT * FROM User WHERE a=1 AND b=2
SelectAnd ==
    <<"S","E","L","E","C","T"," ","*"," ","F","R","O","M"," ","U","s","e","r"," ","W","H","E","R","E"," ","a","=","1"," ","A","N","D"," ","b","=","2">>

\* SELECT * FROM User WHERE a='x' OR b=2
SelectOr ==
    <<"S","E","L","E","C","T"," ","*"," ","F","R","O","M"," ","U","s","e","r"," ","W","H","E","R","E"," ","a","=","'","x","'"," ","O","R"," ","b","=","2">>

\* SELECT * User
SelectNoFrom ==
    <<"S","E","L","E","C","T"," ","*"," ","U","s","e","r">>

\* SELECT * FROM User WHERE ???
SelectBadWhere ==
    <<"S","E","L","E","C","T"," ","*"," ","F","R","O","M"," ","U","s","e","r"," ","W","H","E","R","E"," ","?","?","?">>

\* SELECT * FROM User LIMIT x
SelectBadLimit ==
    <<"S","E","L","E","C","T"," ","*"," ","F","R","O","M"," ","U","s","e","r"," ","L","I","M","I","T"," ","x">>

\* SELECT * FROM User WHERE id = %(v)s
SelectParam ==
    <<"S","E","L","E","C","T"," ","*"," ","F","R","O","M"," ","U","s","e","r"," ","W","H","E","R","E"," ","i","d"," ","="," ","%","(","v",")","s">>

\* SELECT * FROM User WHERE id = %(w)s
SelectMissingParam ==
    <<"S","E","L","E","C","T"," ","*"," ","F","R","O","M"," ","U","s","e","r"," ","W","H","E","R","E"," ","i","d"," ","="," ","%","(","w",")","s">>

\* INSERT INTO t (a,b) VALUES (1,'x')
InsertTwo ==
    <<"I","N","S","E","R","T"," ","I","N","T","O"," ","t"," ","(","a",",","b",")"," ","V","A","L","U","E","S"," ","(","1",",","'","x","'",")">>

\* INSERT INTO t (a,b,a) VALUES (1,'x',2)
InsertDuplicate ==
    <<"I","N","S","E","R","T"," ","I","N","T","O"," ","t"," ","(","a",",","b",",","a",")"," ","V","A","L","U","E","S"," ","(","1",",","'","x","'",",","2",")">>

\* INSERT INTO t (a,b) VALUES (1)
InsertMismatch ==
    <<"I","N","S","E","R","T"," ","I","N","T","O"," ","t"," ","(","a",",","b",")"," ","V","A","L","U","E","S"," ","(","1",")">>

\* UPDATE t SET a=1, b='x' WHERE id='01234567890123456789012345678901'
UpdateTwo ==
    <<"U","P","D","A","T","E"," ","t"," ","S","E","T"," ","a","=","1",","," ","b","=","'","x","'"," ","W","H","E","R","E"," ","i","d","=","'","0","1","2","3","4","5","6","7","8","9","0","1","2","3","4","5","6","7","8","9","0","1","2","3","4","5","6","7","8","9","0","1","'">>

\* UPDATE t SET a=1, b='x', a=2 WHERE id='01234567890123456789012345678901'
UpdateDuplicate ==
    <<"U","P","D","A","T","E"," ","t"," ","S","E","T"," ","a","=","1",","," ","b","=","'","x","'",","," ","a","=","2"," ","W","H","E","R","E"," ","i","d","=","'","0","1","2","3","4","5","6","7","8","9","0","1","2","3","4","5","6","7","8","9","0","1","2","3","4","5","6","7","8","9","0","1","'">>

\* UPDATE t SET a WHERE id='01234567890123456789012345678901'
UpdateNoAssign ==
    <<"U","P","D","A","T","E"," ","t"," ","S","E","T"," ","a"," ","W","H","E","R","E"," ","i","d","=","'","0","1","2","3","4","5","6","7","8","9","0","1","2","3","4","5","6","7","8","9","0","1","2","3","4","5","6","7","8","9","0","1","'">>

\* UPDATE t SET a=1 WHERE id='abc'
UpdateShortId ==
    <<"U","P","D","A","T","E"," ","t"," ","S","E","T"," ","a","=","1"," ","W","H","E","R","E"," ","i","d","=","'","a","b","c","'">>

\* DELETE FROM User WHERE id='01234567890123456789012345678901'
DeleteOne ==
    <<"D","E","L","E","T","E"," ","F","R","O","M"," ","U","s","e","r"," ","W","H","E","R","E"," ","i","d","=","'","0","1","2","3","4","5","6","7","8","9","0","1","2","3","4","5","6","7","8","9","0","1","2","3","4","5","6","7","8","9","0","1","'">>

\* DELETE FROM User
DeleteNoWhere ==
    <<"D","E","L","E","T","E"," ","F","R","O","M"," ","U","s","e","r">>

\* DELETE FROM User WHERE id='zz234567890123456789012345678901'
DeleteNonHexId ==
    <<"D","E","L","E","T","E"," ","F","R","O","M"," ","U","s","e","r"," ","W","H","E","R","E"," ","i","d","=","'","z","z","2","3","4","5","6","7","8","9","0","1","2","3","4","5","6","7","8","9","0","1","2","3","4","5","6","7","8","9","0","1","'">>

\* -- nothing to do
CommentLine ==
    <<"-","-"," ","n","o","t","h","i","n","g"," ","t","o"," ","d","o">>

\* DROP TABLE User
DropTable ==
    <<"D","R","O","P"," ","T","A","B","L","E"," ","U","s","e","r">>

\* the statement texts handed to execute
Corpus ==
    <<SelectAll, SelectFull, SelectPadded, SelectAnd, SelectOr,
      SelectNoFrom, SelectBadWhere, SelectBadLimit, SelectParam, SelectMissingParam,
      InsertTwo, InsertDuplicate, InsertMismatch, UpdateTwo, UpdateDuplicate,
      UpdateNoAssign, UpdateShortId, DeleteOne, DeleteNoWhere, DeleteNonHexId,
      CommentLine, DropTable>>

\* the parameters handed to execute: None, or a dict of the parameter texts
Parameters ==
    << <<>>,
       <<[key |-> <<"v">>, value |-> <<"7">>]>> >>

\* parameters[key], as an optional value (none: Python raises KeyError)
RECURSIVE Lookup(_, _)
Lookup(params, key) ==
    IF params = <<>> THEN <<>>
    ELSE IF Head(params).key = key THEN <<Head(params).value>>
    ELSE Lookup(Tail(params), key)

\* operation % parameters from character i on: [exc, s].  The conversions
\* modelled are %(key)s and %%; any other character after "%" is the
\* ValueError of an unsupported format character.
RECURSIVE FormatFrom(_, _, _, _)
FormatFrom(s, i, params, acc) ==
    LET pct   == FindFrom(s, <<"%">>, i)
        text  == acc \o SubSeq(s, i, pct - 1)
        close == FindFrom(s, <<")">>, pct + 2)
        value == Lookup(params, SubSeq(s, pct + 2, close - 1))
    IN  IF pct > Len(s) THEN [exc |-> "none", s |-> text]
        ELSE IF pct = Len(s) THEN [exc |-> "ValueError", s |-> <<>>]
        ELSE IF s[pct + 1] = "%" THEN FormatFrom(s, pct + 2, params, Append(text, "%"))
        ELSE IF s[pct + 1] # "(" THEN [exc |-> "ValueError", s |-> <<>>]
        ELSE IF close >= Len(s) THEN [exc |-> "ValueError", s |-> <<>>]
        ELSE IF value = <<>> THEN [exc |-> "KeyError", s |-> <<>>]
        ELSE IF s[close + 1] # "s" THEN [exc |-> "ValueError", s |-> <<>>]
        ELSE FormatFrom(s, close + 2, params, text \o value[1])

\* ------------------------------------------------------- request payloads

NoPayload ==
    [url |-> "", kind |-> "", entity |-> <<>>, fields |-> <<>>, filter |-> <<>>,
     order_by |-> <<>>, pagination |-> <<>>, id |-> <<>>, data |-> <<>>]

DefaultLimit == 100

\* the payload of Cursor._execute_query; fields, filter, order_by and
\* pagination are optional values (none: the key is absent)
QueryPayload(parsed) ==
    [NoPayload EXCEPT
       !.url        = "/query",
       !.kind       = "Query",
       !.entity     = parsed.entity,
       !.fields     = IF parsed.fields # <<>> /\ parsed.fields # << <<"*">> >>
                      THEN <<parsed.fields>> ELSE <<>>,
       !.filter     = parsed.filter_expr,
       !.order_by   = IF parsed.order_by # <<>> /\ parsed.order_by[1] # <<>>
                      THEN parsed.order_by ELSE <<>>,
       !.pagination = IF parsed.limit # <<>> \/ parsed.offset # <<>>
                      THEN <<[limit  |-> IF parsed.limit # <<>> /\ parsed.limit[1] # 0
                                         THEN parsed.limit[1] ELSE DefaultLimit,
                              offset |-> IF parsed.offset # <<>> /\ parsed.offset[1] # 0
                                         THEN parsed.offset[1] ELSE 0]>>
                      ELSE <<>>]

\* [{"field": k, "value": self._convert_value(v)} for k, v in data.items()]
WireData(data) ==
    [i \in 1..Len(data) |-> [field |-> data[i].field, value |-> ConvertValue(data[i].value)]]

\* the payload of Cursor._execute_insert
InsertPayload(parsed) ==
    [NoPayload EXCEPT !.url = "/mutate", !.kind = "Insert",
                      !.entity = parsed.entity, !.data = WireData(parsed.data)]

\* the payload of Cursor._execute_update
UpdatePayload(parsed, bytes) ==
    [NoPayload EXCEPT !.url = "/mutate", !.kind = "Update", !.entity = parsed.entity,
                      !.id = <<bytes>>, !.data = WireData(parsed.data)]

\* the payload of Cursor._execute_delete
DeletePayload(parsed, bytes) ==
    [NoPayload EXCEPT !.url = "/mutate", !.kind = "Delete", !.entity = parsed.entity,
                      !.id = <<bytes>>]

\* what execute does with a statement text before it calls the gateway:
\* [exc, stage, stmt, payload]; stage names the step that raised
Prepared(error, step, stmt, payload) ==
    [exc |-> error, stage |-> step, stmt |-> stmt, payload |-> payload]

\* Cursor._execute_query up to the request
PrepareQuery(sql) ==
    LET Query(parsed) ==
            IF parsed.exc # "none" THEN Prepared(parsed.exc, "parse", "SELECT", NoPayload)
            ELSE Prepared("none", "none", "SELECT", QueryPayload(parsed))
    IN  Query(ParseSelect(sql))

\* Cursor._execute_insert up to the request
PrepareInsert(sql) ==
    LET Insert(parsed) ==
            IF parsed.exc # "none" THEN Prepared(parsed.exc, "parse", "INSERT", NoPayload)
            ELSE Prepared("none", "none", "INSERT", InsertPayload(parsed))
    IN  Insert(ParseInsert(sql))

\* Cursor._execute_update up to the request
PrepareUpdate(sql) ==
    LET Identified(parsed, uuid) ==
            IF uuid.exc # "none" THEN Prepared(uuid.exc, "identifier", "UPDATE", NoPayload)
            ELSE Prepared("none", "none", "UPDATE", UpdatePayload(parsed, uuid.bytes))
        Update(parsed) ==
            IF parsed.exc # "none" THEN Prepared(parsed.exc, "parse", "UPDATE", NoPayload)
            ELSE Identified(parsed, HexToUuid(parsed.entity_id))
    IN  Update(ParseUpdate(sql))

\* Cursor._execute_delete that builds the request from whatever the
\* identifier decodes to, valid or not
PrepareDeleteUnvalidated(sql) ==
    LET Delete(parsed) ==
            IF parsed.exc # "none" THEN Prepared(parsed.exc, "parse", "DELETE", NoPayload)
            ELSE Prepared("none", "none", "DELETE",
                          DeletePayload(parsed, HexToUuid(parsed.entity_id).bytes))
    IN  Delete(ParseDelete(sql))

\* Cursor._execute_delete up to the request
PrepareDelete(sql) ==
    LET Identified(parsed, uuid) ==
            IF uuid.exc # "none" THEN Prepared(uuid.exc, "identifier", "DELETE", NoPayload)
            ELSE Prepared("none", "none", "DELETE", DeletePayload(parsed, uuid.bytes))
        Delete(parsed) ==
            IF parsed.exc # "none" THEN Prepared(parsed.exc, "parse", "DELETE", NoPayload)
            ELSE Identified(parsed, HexToUuid(parsed.entity_id))
    IN  Delete(ParseDelete(sql))

\* Cursor.execute that has no branch for a comment line: the text falls
\* through to "Unsupported operation"
PrepareWithoutCommentBranch(sql_text, params) ==
    LET stripped  == Strip(sql_text)
        formatted == IF params # <<>> THEN FormatFrom(stripped, 1, params, <<>>)
                     ELSE [exc |-> "none", s |-> stripped]
        u         == UpperStr(formatted.s)
    IN  IF formatted.exc # "none"
        THEN Prepared(formatted.exc, "substitute", "", NoPayload)
        ELSE IF StartsWith(u, <<"S","E","L","E","C","T">>) THEN PrepareQuery(formatted.s)
        ELSE IF StartsWith(u, <<"I","N","S","E","R","T">>) THEN PrepareInsert(formatted.s)
        ELSE IF StartsWith(u, <<"U","P","D","A","T","E">>) THEN PrepareUpdate(formatted.s)
        ELSE IF StartsWith(u, <<"D","E","L","E","T","E">>) THEN PrepareDelete(formatted.s)
        ELSE Prepared("ProgrammingError", "parse", "", NoPayload)

\* Cursor.execute from the strip of the operation to the request of the
\* handler it dispatches to
Prepare(sql_text, params) ==
    LET stripped  == Strip(sql_text)
        formatted == IF params # <<>> THEN FormatFrom(stripped, 1, params, <<>>)
                     ELSE [exc |-> "none", s |-> stripped]
        u         == UpperStr(formatted.s)
    IN  IF formatted.exc # "none"
        THEN Prepared(formatted.exc, "substitute", "", NoPayload)
        ELSE IF StartsWith(u, <<"S","E","L","E","C","T">>) THEN PrepareQuery(formatted.s)
        ELSE IF StartsWith(u, <<"I","N","S","E","R","T">>) THEN PrepareInsert(formatted.s)
        ELSE IF StartsWith(u, <<"U","P","D","A","T","E">>) THEN PrepareUpdate(formatted.s)
        ELSE IF StartsWith(u, <<"D","E","L","E","T","E">>) THEN PrepareDelete(formatted.s)
        ELSE IF StartsWith(u, <<"-","-">>) THEN Prepared("none", "none", "COMMENT", NoPayload)
        ELSE Prepared("ProgrammingError", "parse", "", NoPayload)

\* Prepare of every statement of the corpus under every parameter set,
\* computed once: PrepareTable[i][p]
RECURSIVE PrepareRow(_, _)
PrepareRow(i, p) ==
    IF p > Len(Parameters) THEN <<>>
    ELSE <<Prepare(Corpus[i], Parameters[p])>> \o PrepareRow(i, p + 1)

RECURSIVE PrepareRows(_)
PrepareRows(i) ==
    IF i > Len(Corpus) THEN <<>>
    ELSE <<PrepareRow(i, 1)>> \o PrepareRows(i + 1)

PrepareTable == PrepareRows(1)

\* --------------------------------------------------------------- responses

\* one row record of a response: a JSON object (its items in key order), or
\* a JSON value that is no object
RowOf(items) == [is_dict |-> TRUE, items |-> items]

NotARow == [is_dict |-> FALSE, items |-> <<>>]

Item(key, value) == [key |-> key, value |-> value]

Row1 == RowOf(<<Item("id", "u1"), Item("name", "ann")>>)

Row2 == RowOf(<<Item("id", "u2"), Item("name", "bob")>>)

Row3 == RowOf(<<Item("id", "u3"), Item("name", "cy")>>)

\* a row whose keys come in another order
Row4 == RowOf(<<Item("name", "dee"), Item("id", "u4")>>)

\* a JSON body: is_dict FALSE for a body that is no object; entities are the
\* blocks of data.entities, each the rows of the block; affected is an
\* optional value; ids_is_list FALSE for an inserted_ids that is a number
BodyOf(entities, affected, inserted_ids) ==
    [is_dict |-> TRUE, entities |-> entities, affected |-> affected,
     ids_is_list |-> TRUE, inserted_ids |-> inserted_ids]

EmptyBody == BodyOf(<<>>, <<>>, <<>>)

\* what the gateway may answer: the transport fails, the status is no
\* success, the body is no JSON, or a JSON body
Responses ==
    << [kind |-> "connect_error", body |-> EmptyBody],
       [kind |-> "status_error",  body |-> EmptyBody],
       [kind |-> "bad_json",      body |-> EmptyBody],
       [kind |-> "json", body |-> [EmptyBody EXCEPT !.is_dict = FALSE]],
       [kind |-> "json", body |-> EmptyBody],
       [kind |-> "json", body |-> BodyOf(<< <<Row1, Row2>>, <<Row3>> >>, <<>>, <<>>)],
       [kind |-> "json", body |-> BodyOf(<< <<>>, <<Row2>> >>, <<>>, <<>>)],
       [kind |-> "json", body |-> BodyOf(<< <<Row1, NotARow>> >>, <<>>, <<>>)],
       [kind |-> "json", body |-> BodyOf(<<>>, <<1>>, <<"n1", "n2">>)],
       [kind |-> "json", body |-> BodyOf(<<>>, <<2>>, <<>>)],
       [kind |-> "json", body |-> [BodyOf(<<>>, <<1>>, <<>>) EXCEPT !.ids_is_list = FALSE]],
       [kind |-> "json", body |-> BodyOf(<< <<>>, <<Row4>>, <<Row1>> >>, <<>>, <<>>)] >>

\* ------------------------------------------------------------------ cursor

MaxBatch == 3

VARIABLES
    description,       \* Cursor.description: none, or the column 7-tuples
    rowcount,          \* Cursor.rowcount
    arraysize,         \* Cursor.arraysize
    rows,              \* Cursor._rows
    row_index,         \* Cursor._row_index
    closed,            \* Cursor._closed
    last_inserted_id,  \* Cursor._last_inserted_id
    call,              \* the most recent call on the cursor
    operation,         \* its statement (index in Corpus), 0: none
    parameters,        \* its parameters (index in Parameters), 0: none
    response,          \* the answer to its request (index in Responses), 0: none
    exc,               \* the exception it raised, "none": it returned
    stage,             \* the step of execute that raised
    posted,            \* the requests it sent, in order
    ret,               \* the rows it returned
    size_given,        \* the size handed to it (fetchmany), as an optional value
    replaced,          \* the most recent execute found a result on the cursor
    fetched,           \* the rows returned since the last execute, in order
    drained,           \* fetchall was called since the last execute
    drain,             \* a caller's loop of fetchmany(n) until an empty batch
    connection_closed, \* Connection._closed of the connection of the cursor
    applied,           \* the function applied on its own, "none": none yet
    applied_to,        \* the input it is applied to
    yielded            \* what it returned or raised

cursorVars == <<description, rowcount, arraysize, rows, row_index, closed, last_inserted_id>>

callVars == <<call, operation, parameters, response, exc, stage, posted, ret, size_given>>

unitVars == <<applied, applied_to, yielded>>

vars == <<description, rowcount, arraysize, rows, row_index, closed, last_inserted_id,
          call, operation, parameters, response, exc, stage, posted, ret, size_given,
          replaced, fetched, drained, drain, connection_closed,
          applied, applied_to, yielded>>

\* the cursor as one record
Cur ==
    [description |-> description, rowcount |-> rowcount, arraysize |-> arraysize,
     rows |-> rows, row_index |-> row_index, closed |-> closed,
     last_inserted_id |-> last_inserted_id]

\* Cursor.__init__
NewCursor ==
    [description |-> <<>>, rowcount |-> -1, arraysize |-> 1, rows |-> <<>>,
     row_index |-> 0, closed |-> FALSE, last_inserted_id |-> <<>>]

\* the reset of Cursor.execute without "self._last_inserted_id = None"
ResetKeepsLastrowid(c) ==
    [c EXCEPT !.rows = <<>>, !.row_index = 0, !.description = <<>>, !.rowcount = -1]

\* "# Reset state" of Cursor.execute
Reset(c) ==
    [c EXCEPT !.rows = <<>>, !.row_index = 0, !.description = <<>>,
              !.rowcount = -1, !.last_inserted_id = <<>>]

\* a request that is sent a second time when the transport fails
SendWithRetry(payload, resp) ==
    IF resp.kind = "connect_error"
    THEN [posted |-> <<payload, payload>>, exc |-> "ConnectError", stage |-> "network",
          body |-> EmptyBody]
    ELSE IF resp.kind = "status_error"
    THEN [posted |-> <<payload>>, exc |-> "HTTPStatusError", stage |-> "network", body |-> EmptyBody]
    ELSE IF resp.kind = "bad_json"
    THEN [posted |-> <<payload>>, exc |-> "JSONDecodeError", stage |-> "decode", body |-> EmptyBody]
    ELSE [posted |-> <<payload>>, exc |-> "none", stage |-> "none", body |-> resp.body]

\* self.connection._client.post(...), response.raise_for_status() and
\* response.json(): [posted, exc, stage, body]
Send(payload, resp) ==
    IF resp.kind = "connect_error"
    THEN [posted |-> <<payload>>, exc |-> "ConnectError", stage |-> "network", body |-> EmptyBody]
    ELSE IF resp.kind = "status_error"
    THEN [posted |-> <<payload>>, exc |-> "HTTPStatusError", stage |-> "network", body |-> EmptyBody]
    ELSE IF resp.kind = "bad_json"
    THEN [posted |-> <<payload>>, exc |-> "JSONDecodeError", stage |-> "decode", body |-> EmptyBody]
    ELSE [posted |-> <<payload>>, exc |-> "none", stage |-> "none", body |-> resp.body]

\* the handler "except httpx.HTTPError" of Cursor.execute
Raised(e) ==
    IF e \in {"ConnectError", "HTTPStatusError"} THEN "OperationalError" ELSE e

\* entities.extend(...) that puts the rows of a block in front of the rows
\* collected so far
RECURSIVE FlattenReversed(_, _)
FlattenReversed(blocks, i) ==
    IF i > Len(blocks) THEN <<>> ELSE FlattenReversed(blocks, i + 1) \o blocks[i]

\* entities.extend(block.get("rows", [])) over the blocks from block i on
RECURSIVE Flatten(_, _)
Flatten(blocks, i) ==
    IF i > Len(blocks) THEN <<>> ELSE blocks[i] \o Flatten(blocks, i + 1)

None == "None"

\* (key, None, None, None, None, None, None) for key in first_row.keys()
DescriptionOf(row) ==
    [i \in 1..Len(row.items) |-> <<row.items[i].key, None, None, None, None, None, None>>]

\* tuple(row.values())
TupleOf(row) == [i \in 1..Len(row.items) |-> row.items[i].value]

\* Cursor._execute_query whose rowcount is the number of blocks of the
\* response
MaterializeQueryCountsBlocks(c, body) ==
    LET entities == Flatten(body.entities, 1)
        c1       == [c EXCEPT !.description = <<DescriptionOf(entities[1])>>]
        c2       == [c1 EXCEPT !.rows = [i \in 1..Len(entities) |-> TupleOf(entities[i])]]
    IN  IF ~body.is_dict THEN [c |-> c, exc |-> "AttributeError"]
        ELSE IF entities = <<>> THEN [c |-> [c EXCEPT !.rows = <<>>, !.rowcount = 0], exc |-> "none"]
        ELSE IF ~entities[1].is_dict THEN [c |-> c, exc |-> "AttributeError"]
        ELSE IF \E i \in 1..Len(entities) : ~entities[i].is_dict
        THEN [c |-> c1, exc |-> "AttributeError"]
        ELSE [c |-> [c2 EXCEPT !.rowcount = Len(body.entities)], exc |-> "none"]

\* Cursor._execute_query after the request: [c, exc]
MaterializeQuery(c, body) ==
    LET entities == Flatten(body.entities, 1)
        c1       == [c EXCEPT !.description = <<DescriptionOf(entities[1])>>]
        c2       == [c1 EXCEPT !.rows = [i \in 1..Len(entities) |-> TupleOf(entities[i])]]
    IN  IF ~body.is_dict THEN [c |-> c, exc |-> "AttributeError"]
        ELSE IF entities = <<>> THEN [c |-> [c EXCEPT !.rows = <<>>, !.rowcount = 0], exc |-> "none"]
        ELSE IF ~entities[1].is_dict THEN [c |-> c, exc |-> "AttributeError"]
        ELSE IF \E i \in 1..Len(entities) : ~entities[i].is_dict
        THEN [c |-> c1, exc |-> "AttributeError"]
        ELSE [c |-> [c2 EXCEPT !.rowcount = Len(c2.rows)], exc |-> "none"]

\* Cursor._execute_insert, _execute_update and _execute_delete after the
\* request: [c, exc]; only _execute_insert reads inserted_ids
MaterializeMutation(c, body, insert) ==
    LET c1 == [c EXCEPT !.rowcount = IF body.affected # <<>> THEN body.affected[1] ELSE 0]
    IN  IF ~body.is_dict THEN [c |-> c, exc |-> "AttributeError"]
        ELSE IF ~insert THEN [c |-> c1, exc |-> "none"]
        ELSE IF ~body.ids_is_list THEN [c |-> c1, exc |-> "TypeError"]
        ELSE IF body.inserted_ids # <<>>
        THEN [c |-> [c1 EXCEPT !.last_inserted_id = <<body.inserted_ids[1]>>], exc |-> "none"]
        ELSE [c |-> c1, exc |-> "none"]

Outcome(c, e, s, p) == [c |-> c, exc |-> e, stage |-> s, posted |-> p]

\* Cursor.execute that resets the cursor before it tests self._closed
ExecuteResetsFirst(c, i, p, r) ==
    LET Materialized(m, sent) ==
            Outcome(m.c, m.exc, IF m.exc = "none" THEN "none" ELSE "materialize",
                    sent.posted)
        Sent(c1, pre, sent) ==
            IF sent.exc # "none"
            THEN Outcome(c1, Raised(sent.exc), sent.stage, sent.posted)
            ELSE Materialized(IF pre.stmt = "SELECT" THEN MaterializeQuery(c1, sent.body)
                              ELSE MaterializeMutation(c1, sent.body, pre.stmt = "INSERT"),
                              sent)
        Dispatched(c1, pre) ==
            IF pre.exc # "none" THEN Outcome(c1, pre.exc, pre.stage, <<>>)
            ELSE IF pre.stmt = "COMMENT" THEN Outcome(c1, "none", "none", <<>>)
            ELSE Sent(c1, pre, Send(pre.payload, Responses[r]))
    IN  IF c.closed THEN Outcome(Reset(c), "InterfaceError", "closed", <<>>)
        ELSE Dispatched(Reset(c), PrepareTable[i][p])

\* Cursor.execute(Corpus[i], Parameters[p]) on cursor c when the gateway
\* answers Responses[r]: [c, exc, stage, posted]
Execute(c, i, p, r) ==
    LET Materialized(m, sent) ==
            Outcome(m.c, m.exc, IF m.exc = "none" THEN "none" ELSE "materialize",
                    sent.posted)
        Sent(c1, pre, sent) ==
            IF sent.exc # "none"
            THEN Outcome(c1, Raised(sent.exc), sent.stage, sent.posted)
            ELSE Materialized(IF pre.stmt = "SELECT" THEN MaterializeQuery(c1, sent.body)
                              ELSE MaterializeMutation(c1, sent.body, pre.stmt = "INSERT"),
                              sent)
        Dispatched(c1, pre) ==
            IF pre.exc # "none" THEN Outcome(c1, pre.exc, pre.stage, <<>>)
            ELSE IF pre.stmt = "COMMENT" THEN Outcome(c1, "none", "none", <<>>)
            ELSE Sent(c1, pre, Send(pre.payload, Responses[r]))
    IN  IF c.closed THEN Outcome(c, "InterfaceError", "closed", <<>>)
        ELSE Dispatched(Reset(c), PrepareTable[i][p])

\* Cursor.executemany(Corpus[i], seq_of_parameters), each entry an index in
\* Parameters, from entry k on: [c, exc, stage, posted, ran]; ran counts the
\* calls of execute, the one that raised included
RECURSIVE Executemany(_, _, _, _, _)
Executemany(c, i, seq_of_parameters, r, k) ==
    LET Rest(out, rest) ==
            [c |-> rest.c, exc |-> rest.exc, stage |-> rest.stage,
             posted |-> out.posted \o rest.posted, ran |-> 1 + rest.ran]
        Step(out) ==
            IF out.exc # "none"
            THEN [c |-> out.c, exc |-> out.exc, stage |-> out.stage,
                  posted |-> out.posted, ran |-> 1]
            ELSE Rest(out, Executemany(out.c, i, seq_of_parameters, r, k + 1))
    IN  IF k > Len(seq_of_parameters)
        THEN [c |-> c, exc |-> "none", stage |-> "none", posted |-> <<>>, ran |-> 0]
        ELSE Step(Execute(c, i, seq_of_parameters[k], r))

\* Cursor.fetchone without "self._row_index += 1"
FetchoneWithoutAdvance(c) ==
    IF c.row_index < Len(c.rows)
    THEN [c |-> c, ret |-> <<c.rows[c.row_index + 1]>>]
    ELSE [c |-> c, ret |-> <<>>]

\* Cursor.fetchone: [c, ret]
Fetchone(c) ==
    IF c.row_index < Len(c.rows)
    THEN [c |-> [c EXCEPT !.row_index = c.row_index + 1], ret |-> <<c.rows[c.row_index + 1]>>]
    ELSE [c |-> c, ret |-> <<>>]

\* Cursor.fetchmany with the slice one row short:
\* self._rows[self._row_index : self._row_index + size - 1]
FetchmanyShortBatch(c, size) ==
    LET Batch(batch) == [c |-> [c EXCEPT !.row_index = c.row_index + Len(batch)], ret |-> batch]
    IN  Batch(PySlice(c.rows, c.row_index,
                      c.row_index + (IF size = <<>> THEN c.arraysize ELSE size[1]) - 1))

\* Cursor.fetchmany that takes 1, not self.arraysize, when no size is given
FetchmanyFixedDefault(c, size) ==
    LET Batch(batch) == [c |-> [c EXCEPT !.row_index = c.row_index + Len(batch)], ret |-> batch]
    IN  Batch(PySlice(c.rows, c.row_index,
                      c.row_index + (IF size = <<>> THEN 1 ELSE size[1])))

\* Cursor.fetchmany(size), size an optional value: [c, ret]
Fetchmany(c, size) ==
    LET Batch(batch) == [c |-> [c EXCEPT !.row_index = c.row_index + Len(batch)], ret |-> batch]
    IN  Batch(PySlice(c.rows, c.row_index,
                      c.row_index + (IF size = <<>> THEN c.arraysize ELSE size[1])))

\* Cursor.fetchall without "self._row_index = len(self._rows)"
FetchallKeepsPosition(c) == [c |-> c, ret |-> PyFrom(c.rows, c.row_index)]

\* Cursor.fetchall: [c, ret]
Fetchall(c) ==
    [c |-> [c EXCEPT !.row_index = Len(c.rows)], ret |-> PyFrom(c.rows, c.row_index)]

\* Cursor.close
Close(c) == [c EXCEPT !.closed = TRUE, !.rows = <<>>]

\* ----------------------------------------------------------------- actions

NoDrain == [state |-> "idle", n |-> 0, acc |-> <<>>, calls |-> 0, all |-> <<>>]

\* the fields of the cursor become those of record c
SetCursor(c) ==
    /\ description' = c.description
    /\ rowcount' = c.rowcount
    /\ arraysize' = c.arraysize
    /\ rows' = c.rows
    /\ row_index' = c.row_index
    /\ closed' = c.closed
    /\ last_inserted_id' = c.last_inserted_id

\* a call that is no execute: it sends nothing and raises nothing
Called(name, rows_returned, given) ==
    /\ call' = name
    /\ operation' = 0
    /\ parameters' = 0
    /\ response' = 0
    /\ exc' = "none"
    /\ stage' = "none"
    /\ posted' = <<>>
    /\ ret' = rows_returned
    /\ size_given' = given
    /\ replaced' = FALSE
    /\ UNCHANGED <<connection_closed, unitVars>>

\* a new cursor, no call made on it yet
Constructed ==
    /\ description = NewCursor.description
    /\ rowcount = NewCursor.rowcount
    /\ arraysize = NewCursor.arraysize
    /\ rows = NewCursor.rows
    /\ row_index = NewCursor.row_index
    /\ closed = NewCursor.closed
    /\ last_inserted_id = NewCursor.last_inserted_id
    /\ call = "init"
    /\ operation = 0
    /\ parameters = 0
    /\ response = 0
    /\ exc = "none"
    /\ stage = "none"
    /\ posted = <<>>
    /\ ret = <<>>
    /\ size_given = <<>>
    /\ replaced = FALSE
    /\ fetched = <<>>
    /\ drained = FALSE
    /\ drain = NoDrain
    /\ connection_closed = FALSE

\* no function is applied on its own
NoInput == [kind |-> "none"]

Init ==
    /\ Constructed
    /\ applied = "none"
    /\ applied_to = NoInput
    /\ yielded = <<>>

\* cursor.execute(Corpus[i], Parameters[p]), the gateway answering Responses[r]
DoExecute(i, p, r) ==
    LET Returned(out) ==
            /\ SetCursor(out.c)
            /\ call' = "execute"
            /\ operation' = i
            /\ parameters' = p
            /\ response' = IF out.posted = <<>> THEN 0 ELSE r
            /\ exc' = out.exc
            /\ stage' = out.stage
            /\ posted' = out.posted
            /\ ret' = <<>>
            /\ size_given' = <<>>
            /\ replaced' = (rows # <<>> \/ description # <<>> \/ rowcount # -1
                            \/ last_inserted_id # <<>>)
            /\ fetched' = <<>>
            /\ drained' = FALSE
            /\ drain' = NoDrain
            /\ UNCHANGED <<connection_closed, unitVars>>
    IN  /\ drain.state # "running"
        \* a statement on an open cursor of a closed connection reaches the
        \* closed httpx client, whose answer is no part of these sources
        /\ ~connection_closed \/ closed
        /\ Returned(Execute(Cur, i, p, r))

\* cursor.executemany(Corpus[i], seq_of_parameters), the gateway answering
\* Responses[r] to every request
DoExecutemany(i, seq_of_parameters, r) ==
    LET Returned(out) ==
            /\ SetCursor(out.c)
            /\ call' = "executemany"
            /\ operation' = i
            /\ parameters' = IF out.ran = 0 THEN 0 ELSE seq_of_parameters[out.ran]
            /\ response' = IF out.posted = <<>> THEN 0 ELSE r
            /\ exc' = out.exc
            /\ stage' = out.stage
            /\ posted' = out.posted
            /\ ret' = <<>>
            /\ size_given' = <<>>
            /\ replaced' = (out.ran > 0 /\ (rows # <<>> \/ description # <<>> \/ rowcount # -1
                                             \/ last_inserted_id # <<>>))
            /\ fetched' = IF out.ran = 0 THEN fetched ELSE <<>>
            /\ drained' = (out.ran = 0 /\ drained)
            /\ drain' = NoDrain
            /\ UNCHANGED <<connection_closed, unitVars>>
    IN  /\ drain.state # "running"
        \* a statement on an open cursor of a closed connection reaches the
        \* closed httpx client, whose answer is no part of these sources
        /\ ~connection_closed \/ closed
        /\ Returned(Executemany(Cur, i, seq_of_parameters, r, 1))

\* cursor.fetchone()
DoFetchone ==
    LET out == Fetchone(Cur)
    IN  /\ drain.state # "running"
        /\ SetCursor(out.c)
        /\ Called("fetchone", out.ret, <<>>)
        /\ fetched' = fetched \o out.ret
        /\ drain' = NoDrain
        /\ UNCHANGED drained

\* cursor.fetchmany(given), given an optional value
DoFetchmany(given) ==
    LET out == Fetchmany(Cur, given)
    IN  /\ drain.state # "running"
        /\ SetCursor(out.c)
        /\ Called("fetchmany", out.ret, given)
        /\ fetched' = fetched \o out.ret
        /\ drain' = NoDrain
        /\ UNCHANGED drained

\* cursor.fetchall()
DoFetchall ==
    LET out == Fetchall(Cur)
    IN  /\ drain.state # "running"
        /\ SetCursor(out.c)
        /\ Called("fetchall", out.ret, <<>>)
        /\ fetched' = fetched \o out.ret
        /\ drained' = TRUE
        /\ drain' = NoDrain

\* cursor.close()
DoClose ==
    /\ drain.state # "running"
    /\ SetCursor(Close(Cur))
    /\ Called("close", <<>>, <<>>)
    /\ drain' = NoDrain
    /\ UNCHANGED <<fetched, drained>>

\* cursor.arraysize = n
SetArraysize(n) ==
    /\ drain.state # "running"
    /\ arraysize # n
    /\ SetCursor([Cur EXCEPT !.arraysize = n])
    /\ Called("arraysize", <<>>, <<>>)
    /\ drain' = NoDrain
    /\ UNCHANGED <<fetched, drained>>

\* a caller starts the loop "batch = fetchmany(n) until batch is empty" at
\* read position 0 with its first fetchmany(n); all is what one fetchall()
\* returns there instead
DrainStart(n) ==
    LET out == Fetchmany(Cur, <<n>>)
    IN  /\ drain.state # "running"
        /\ row_index = 0
        /\ SetCursor(out.c)
        /\ Called("fetchmany", out.ret, <<n>>)
        /\ fetched' = fetched \o out.ret
        /\ drain' = [state |-> IF out.ret = <<>> THEN "done" ELSE "running",
                     n |-> n, acc |-> out.ret, calls |-> 1, all |-> Fetchall(Cur).ret]
        /\ UNCHANGED drained

\* one more turn of the loop: cursor.fetchmany(n)
DrainStep ==
    LET out == Fetchmany(Cur, <<drain.n>>)
    IN  /\ drain.state = "running"
        /\ SetCursor(out.c)
        /\ Called("fetchmany", out.ret, <<drain.n>>)
        /\ fetched' = fetched \o out.ret
        /\ drain' = [drain EXCEPT !.acc = drain.acc \o out.ret,
                                  !.calls = drain.calls + 1,
                                  !.state = IF out.ret = <<>> THEN "done" ELSE "running"]
        /\ UNCHANGED drained

\* connection.close()
DoConnectionClose ==
    /\ drain.state # "running"
    /\ connection_closed' = TRUE
    /\ call' = "Connection.close"
    /\ operation' = 0
    /\ parameters' = 0
    /\ response' = 0
    /\ exc' = "none"
    /\ stage' = "none"
    /\ posted' = <<>>
    /\ ret' = <<>>
    /\ size_given' = <<>>
    /\ replaced' = FALSE
    /\ drain' = NoDrain
    /\ UNCHANGED <<cursorVars, fetched, drained, unitVars>>

\* connection.cursor(): InterfaceError on a closed connection, else another
\* cursor, which is not followed
DoConnectionCursor ==
    /\ drain.state # "running"
    /\ call' = "Connection.cursor"
    /\ operation' = 0
    /\ parameters' = 0
    /\ response' = 0
    /\ exc' = IF connection_closed THEN "InterfaceError" ELSE "none"
    /\ stage' = IF connection_closed THEN "closed" ELSE "none"
    /\ posted' = <<>>
    /\ ret' = <<>>
    /\ size_given' = <<>>
    /\ replaced' = FALSE
    /\ drain' = NoDrain
    /\ UNCHANGED <<cursorVars, fetched, drained, connection_closed, unitVars>>

\* the parameter sequences handed to executemany, each entry an index in
\* Parameters
ParameterSequences == {<<>>, <<2>>, <<1, 2>>, <<2, 2>>}

\* the statements handed to executemany
BatchStatements ==
    {i \in 1..Len(Corpus) :
        Corpus[i] \in {SelectParam, SelectMissingParam, InsertTwo, DeleteNonHexId, CommentLine}}

\* the answers of the gateway to the requests of an executemany: the
\* transport fails, rows, or an affected count with inserted ids
BatchAnswers ==
    {r \in 1..Len(Responses) :
        \/ Responses[r].kind = "connect_error"
        \/ Responses[r].body.entities = << <<Row1, Row2>>, <<Row3>> >>
        \/ Responses[r].body.inserted_ids = <<"n1", "n2">>}

\* the sizes handed to fetchmany: none (arraysize), or -MaxBatch..MaxBatch
Sizes == {<<>>} \cup {<<n>> : n \in (0 - MaxBatch)..MaxBatch}

Next ==
    \/ \E i \in 1..Len(Corpus), p \in 1..Len(Parameters), r \in 1..Len(Responses) :
           DoExecute(i, p, r)
    \/ \E i \in BatchStatements, ps \in ParameterSequences, r \in BatchAnswers :
           DoExecutemany(i, ps, r)
    \/ DoConnectionClose
    \/ DoConnectionCursor
    \/ DoFetchone
    \/ \E given \in Sizes : DoFetchmany(given)
    \/ DoFetchall
    \/ DoClose
    \/ \E n \in 1..MaxBatch : SetArraysize(n)
    \/ \E n \in 1..MaxBatch : DrainStart(n)
    \/ DrainStep

Spec == Init /\ [][Next]_vars

\* ------------------------------------------------------------------ claims

\* ----------------------------------------- functions applied on their own

\* ---- SELECT statements, put together from clauses; next to its text each
\* clause carries what it says, as it is written in the statement


FieldLists ==
    << [text |-> <<"*">>, fields |-> <<>>, empty |-> FALSE],
       [text |-> <<"i","d",",","n","a","m","e">>,
        fields |-> << <<"i","d">>, <<"n","a","m","e">> >>, empty |-> FALSE],
       [text |-> <<>>, fields |-> <<>>, empty |-> TRUE] >>

WhereClauses ==
    << [text |-> <<>>, filter |-> <<>>],
       [text |-> <<" ","W","H","E","R","E"," ","a","g","e",">","=","3">>,
        filter |-> <<[field |-> <<"a","g","e">>, op |-> "ge", value |-> IntVal(<<"3">>)]>>] >>

OrderClauses ==
    << [text |-> <<>>, order |-> <<>>, directed |-> FALSE],
       [text |-> <<" ","O","R","D","E","R"," ","B","Y"," ","n","a","m","e">>,
        order |-> <<[field |-> <<"n","a","m","e">>, direction |-> "asc"]>>,
        directed |-> FALSE],
       [text |-> <<" ","O","R","D","E","R"," ","B","Y"," ","n","a","m","e"," ","A","S","C">>,
        order |-> <<[field |-> <<"n","a","m","e">>, direction |-> "asc"]>>,
        directed |-> TRUE],
       [text |-> <<" ","O","R","D","E","R"," ","B","Y"," ","A","g","e"," ","d","e","s","c",","," ","i","d">>,
        order |-> <<[field |-> <<"A","g","e">>, direction |-> "desc"],
                    [field |-> <<"i","d">>, direction |-> "asc"]>>,
        directed |-> TRUE] >>

LimitClauses ==
    << [text |-> <<>>, n |-> <<>>, integer |-> TRUE],
       [text |-> <<" ","L","I","M","I","T"," ","0">>, n |-> <<0>>, integer |-> TRUE],
       [text |-> <<" ","L","I","M","I","T"," ","5">>, n |-> <<5>>, integer |-> TRUE],
       [text |-> <<" ","L","I","M","I","T"," ","x">>, n |-> <<>>, integer |-> FALSE] >>

OffsetClauses ==
    << [text |-> <<>>, n |-> <<>>, integer |-> TRUE],
       [text |-> <<" ","O","F","F","S","E","T"," ","0">>, n |-> <<0>>, integer |-> TRUE],
       [text |-> <<" ","O","F","F","S","E","T"," ","2">>, n |-> <<2>>, integer |-> TRUE],
       [text |-> <<" ","O","F","F","S","E","T"," ","y">>, n |-> <<>>, integer |-> FALSE] >>

\* SELECT <fields> FROM User [WHERE ...] [ORDER BY ...] [LIMIT ...] [OFFSET ...]
SelectOf(f, w, o, l, m) ==
    [kind |-> "statement", shape |-> "select",
     text |-> <<"S","E","L","E","C","T"," ">> \o FieldLists[f].text
              \o <<" ","F","R","O","M"," ","U","s","e","r">> \o WhereClauses[w].text
              \o OrderClauses[o].text \o LimitClauses[l].text \o OffsetClauses[m].text,
     fields |-> FieldLists[f], where |-> WhereClauses[w], order |-> OrderClauses[o],
     limit |-> LimitClauses[l], offset |-> OffsetClauses[m]]

Selects ==
    {SelectOf(f, w, o, l, m) : f \in 1..Len(FieldLists), w \in 1..Len(WhereClauses),
                               o \in 1..Len(OrderClauses), l \in 1..Len(LimitClauses),
                               m \in 1..Len(OffsetClauses)}

\* ---- OrmdbClient

\* the body of a failure answer: a JSON object with optional message and
\* code, or (is_dict FALSE) a JSON value that is no object
ErrorBody(message, code) == [is_dict |-> TRUE, message |-> message, code |-> code]

NoErrorBody == ErrorBody(<<>>, <<>>)

\* str(e) of the httpx.HTTPStatusError that raise_for_status() raises
StatusText == "status error"

\* what the gateway may answer to the client: the transport fails; the
\* status is no success and the content is empty, a JSON object, text that
\* is no JSON, or a JSON list; the status is a success and the content is a
\* JSON object, text that is no JSON, or a JSON list
ClientResponses ==
    << [kind |-> "connect_error", content |-> "empty", error |-> NoErrorBody, body |-> EmptyBody],
       [kind |-> "status_error", content |-> "empty", error |-> NoErrorBody, body |-> EmptyBody],
       [kind |-> "status_error", content |-> "json",
        error |-> ErrorBody(<<"no such entity">>, <<"E404">>), body |-> EmptyBody],
       [kind |-> "status_error", content |-> "json",
        error |-> ErrorBody(<<"no such entity">>, <<>>), body |-> EmptyBody],
       [kind |-> "status_error", content |-> "json", error |-> NoErrorBody, body |-> EmptyBody],
       [kind |-> "status_error", content |-> "not_json", error |-> NoErrorBody, body |-> EmptyBody],
       [kind |-> "status_error", content |-> "json",
        error |-> [NoErrorBody EXCEPT !.is_dict = FALSE], body |-> EmptyBody],
       [kind |-> "ok", content |-> "not_json", error |-> NoErrorBody, body |-> EmptyBody],
       [kind |-> "ok", content |-> "json", error |-> NoErrorBody,
        body |-> [EmptyBody EXCEPT !.is_dict = FALSE]],
       [kind |-> "ok", content |-> "json", error |-> NoErrorBody,
        body |-> BodyOf(<< <<Row1, Row2>>, <<Row3>> >>, <<>>, <<>>)],
       [kind |-> "ok", content |-> "json", error |-> NoErrorBody,
        body |-> BodyOf(<<>>, <<1>>, <<"n1", "n2">>)] >>

\* what a call of the client comes to: the request it sent, the exception it
\* raised with its message and code, or the result it returned
ClientOutcome(sent, error, message, code, result) ==
    [posted |-> sent, exc |-> error, message |-> message, code |-> code, result |-> result]

\* the handlers "except httpx.HTTPStatusError" and "except httpx.HTTPError" of
\* OrmdbClient.query and OrmdbClient._mutate; domain is the error of the
\* endpoint, prefix the words of its ConnectionError
ClientRaised(sent, resp, domain, prefix) ==
    IF resp.kind = "connect_error"
    THEN ClientOutcome(sent, "ConnectionError", <<prefix>>, <<>>, <<>>)
    ELSE IF resp.content = "empty"
    THEN ClientOutcome(sent, domain, <<StatusText>>, <<>>, <<>>)
    ELSE IF resp.content = "not_json"
    THEN ClientOutcome(sent, "JSONDecodeError", <<>>, <<>>, <<>>)
    ELSE IF ~resp.error.is_dict
    THEN ClientOutcome(sent, "AttributeError", <<>>, <<>>, <<>>)
    ELSE ClientOutcome(sent, domain,
                       IF resp.error.message # <<>> THEN resp.error.message
                       ELSE <<StatusText>>,
                       resp.error.code, <<>>)

\* QueryResult.from_response of a body that carries no edges and no meta
QueryResultOf(body) ==
    LET Result(entities) ==
            [entities |-> entities, edges |-> <<>>, total_entities |-> Len(entities),
             total_edges |-> 0, has_more |-> FALSE]
    IN  Result(Flatten(body.entities, 1))

\* MutationResult.from_response
MutationResultOf(body) ==
    [success |-> FALSE,
     affected |-> IF body.affected # <<>> THEN body.affected[1] ELSE 0,
     inserted_ids |-> body.inserted_ids]

\* the arguments of OrmdbClient.query; fields, filter, order_by, limit and
\* offset are optional values, includes is left out by the caller
QueryArgs(fields, filter, order_by, limit, offset) ==
    [entity |-> "User", fields |-> fields, filter |-> filter, includes |-> <<>>,
     order_by |-> order_by, limit |-> limit, offset |-> offset]

\* the payload of OrmdbClient.query; fields, filter, includes, order_by and
\* pagination are optional values (none: the key is absent)
ClientQueryPayload(args) ==
    [url         |-> "/query",
     root_entity |-> args.entity,
     fields      |-> IF args.fields # <<>> /\ args.fields[1] # <<>> THEN args.fields ELSE <<>>,
     filter      |-> IF args.filter # <<>> /\ args.filter[1] # <<>> THEN args.filter ELSE <<>>,
     includes    |-> IF args.includes # <<>> /\ args.includes[1] # <<>>
                     THEN args.includes ELSE <<>>,
     order_by    |-> IF args.order_by # <<>> /\ args.order_by[1] # <<>>
                     THEN args.order_by ELSE <<>>,
     pagination  |-> IF args.limit # <<>> \/ args.offset # <<>>
                     THEN <<[limit  |-> IF args.limit # <<>> /\ args.limit[1] # 0
                                        THEN args.limit[1] ELSE DefaultLimit,
                             offset |-> IF args.offset # <<>> /\ args.offset[1] # 0
                                        THEN args.offset[1] ELSE 0]>>
                     ELSE <<>>]

\* OrmdbClient.query(**args) when the gateway answers resp
ClientQuery(args, resp) ==
    LET Answered(sent) ==
            IF resp.kind # "ok" THEN ClientRaised(sent, resp, "QueryError", "Query failed")
            ELSE IF resp.content = "not_json"
            THEN ClientOutcome(sent, "JSONDecodeError", <<>>, <<>>, <<>>)
            ELSE IF ~resp.body.is_dict
            THEN ClientOutcome(sent, "AttributeError", <<>>, <<>>, <<>>)
            ELSE ClientOutcome(sent, "none", <<>>, <<>>, <<QueryResultOf(resp.body)>>)
    IN  Answered(<<ClientQueryPayload(args)>>)

\* OrmdbClient._mutate(payload) when the gateway answers resp
ClientMutate(payload, resp) ==
    LET Answered(sent) ==
            IF resp.kind # "ok"
            THEN ClientRaised(sent, resp, "MutationError", "Mutation failed")
            ELSE IF resp.content = "not_json"
            THEN ClientOutcome(sent, "JSONDecodeError", <<>>, <<>>, <<>>)
            ELSE IF ~resp.body.is_dict
            THEN ClientOutcome(sent, "AttributeError", <<>>, <<>>, <<>>)
            ELSE ClientOutcome(sent, "none", <<>>, <<>>, <<MutationResultOf(resp.body)>>)
    IN  Answered(<<payload>>)

\* ---- the specification of the functions applied on their own

\* ---- identifiers: 32 hexadecimal digits, written as they are, with the
\* hyphens of a UUID, or with hyphens anywhere

\* 01234567890123456789012345678901
IdExample ==
    <<"0","1","2","3","4","5","6","7","8","9","0","1","2","3","4","5","6","7","8","9","0","1","2","3","4","5","6","7","8","9","0","1">>

\* 00112233445566778899aAbBcCdDeEfF
IdEveryDigit ==
    <<"0","0","1","1","2","2","3","3","4","4","5","5","6","6","7","7","8","8","9","9","a","A","b","B","c","C","d","D","e","E","f","F">>

\* FEDCBA9876543210fedcba9876543210
IdDescending ==
    <<"F","E","D","C","B","A","9","8","7","6","5","4","3","2","1","0","f","e","d","c","b","a","9","8","7","6","5","4","3","2","1","0">>

\* ffffffffffffffffffffffffffffffff
IdAllOnes ==
    <<"f","f","f","f","f","f","f","f","f","f","f","f","f","f","f","f","f","f","f","f","f","f","f","f","f","f","f","f","f","f","f","f">>

\* 00000000000000000000000000000000
IdNil ==
    <<"0","0","0","0","0","0","0","0","0","0","0","0","0","0","0","0","0","0","0","0","0","0","0","0","0","0","0","0","0","0","0","0">>

\* the digits with the hyphens of the UUID spelling 8-4-4-4-12
Hyphenated(hex) ==
    SubSeq(hex, 1, 8) \o <<"-">> \o SubSeq(hex, 9, 12) \o <<"-">> \o SubSeq(hex, 13, 16)
        \o <<"-">> \o SubSeq(hex, 17, 20) \o <<"-">> \o SubSeq(hex, 21, 32)

\* the digits with a hyphen after the first digit, before the last and at the end
OddlyHyphenated(hex) ==
    SubSeq(hex, 1, 1) \o <<"-">> \o SubSeq(hex, 2, 31) \o <<"-">> \o SubSeq(hex, 32, 32)
        \o <<"-">>

\* an identifier as it is written, the digits it stands for, and whether it
\* is one: exactly 32 hexadecimal digits once the hyphens are removed
Identifier(text, hex, valid) ==
    [kind |-> "identifier", text |-> text, hex |-> hex, valid |-> valid,
     hyphens |-> text # hex]

ValidIdentifiers ==
    UNION {{Identifier(hex, hex, TRUE), Identifier(Hyphenated(hex), hex, TRUE),
            Identifier(OddlyHyphenated(hex), hex, TRUE)} :
           hex \in {IdExample, IdEveryDigit, IdDescending, IdAllOnes, IdNil}}

\* too short, too long, a letter that is no hexadecimal digit, a sign, a
\* space and an underscore among the digits, hyphens only
InvalidIdentifiers ==
    {Identifier(text, <<>>, FALSE) :
        text \in {SubSeq(IdExample, 1, 31), IdExample \o <<"0">>, <<"a","b","c">>,
                  SubSeq(IdExample, 1, 31) \o <<"g">>,
                  <<"z","z">> \o SubSeq(IdExample, 3, 32),
                  <<"0","0","+","1">> \o SubSeq(IdExample, 5, 32),
                  <<"0","0"," ","1">> \o SubSeq(IdExample, 5, 32),
                  <<"0","0","_","1">> \o SubSeq(IdExample, 5, 32),
                  Hyphenated(SubSeq(IdExample, 1, 31) \o <<"g">>),
                  <<"-","-">>}}

Identifiers == ValidIdentifiers \cup InvalidIdentifiers

\* UPDATE t SET a=1 WHERE id='<identifier>'
UpdateOf(id) ==
    [kind |-> "statement", shape |-> "update", id |-> id,
     text |-> <<"U","P","D","A","T","E"," ","t"," ","S","E","T"," ","a","=","1"," ","W","H","E","R","E"," ","i","d","=","'">>
              \o id.text \o <<"'">>]

\* DELETE FROM User WHERE id=<identifier>
DeleteOf(id) ==
    [kind |-> "statement", shape |-> "delete", id |-> id,
     text |-> <<"D","E","L","E","T","E"," ","F","R","O","M"," ","U","s","e","r"," ","W","H","E","R","E"," ","i","d","=">>
              \o id.text]

Mutations == {UpdateOf(id) : id \in Identifiers} \cup {DeleteOf(id) : id \in Identifiers}

\* OrmdbClient._hex_to_uuid: [exc, bytes]
ClientHexToUuid(hex_str) ==
    LET Bytes(pairs) ==
            IF \E i \in 1..(UuidHexLen \div 2) : ~pairs[i].ok
            THEN [exc |-> "ValueError", bytes |-> <<>>]
            ELSE [exc |-> "none", bytes |-> [i \in 1..(UuidHexLen \div 2) |-> pairs[i].n]]
    IN  IF Len(hex_str) # UuidHexLen
        THEN [exc |-> "ValueError", bytes |-> <<>>]
        ELSE Bytes([i \in 1..(UuidHexLen \div 2) |->
                       PyHexPair(PySlice(hex_str, 2 * (i - 1), 2 * i))])

\* ---- Python values handed to the value codec

\* a bytes value: s holds its bytes, each an int
BytesVal(b) == [t |-> "bytes", n |-> 0, s |-> b]

\* a list: s holds its items
ListVal(items) == [t |-> "list", n |-> 0, s |-> items]

\* str(value) of None, a bool, an int or a str
PyStr(value) ==
    IF value.t = "none" THEN StrVal(<<"N","o","n","e">>)
    ELSE IF value.t = "bool"
    THEN StrVal(IF value.n = 1 THEN <<"T","r","u","e">> ELSE <<"F","a","l","s","e">>)
    ELSE StrVal(value.s)

\* OrmdbClient._convert_value: the tagged wire value of a Python value
ClientConvertValue(value) ==
    LET Array(first) ==
            IF first.t = "bool" THEN [tag |-> "BoolArray", v |-> value]
            ELSE IF first.t = "int" THEN [tag |-> "Int64Array", v |-> value]
            ELSE IF first.t = "float" THEN [tag |-> "Float64Array", v |-> value]
            ELSE IF first.t = "str" THEN [tag |-> "StringArray", v |-> value]
            ELSE [tag |-> "StringArray",
                  v |-> ListVal([i \in 1..Len(value.s) |-> PyStr(value.s[i])])]
    IN  IF value.t = "none" THEN [tag |-> "Null", v |-> value]
        ELSE IF value.t = "bool" THEN [tag |-> "Bool", v |-> value]
        ELSE IF value.t = "int"
             THEN IF ~DecLess(value.s, Int32Min) /\ DecLess(value.s, Int32End)
                  THEN [tag |-> "Int32", v |-> value]
                  ELSE [tag |-> "Int64", v |-> value]
        ELSE IF value.t = "float" THEN [tag |-> "Float64", v |-> value]
        ELSE IF value.t = "str" THEN [tag |-> "String", v |-> value]
        ELSE IF value.t = "bytes" THEN [tag |-> "Bytes", v |-> ListVal(value.s)]
        ELSE IF value.s = <<>> THEN [tag |-> "StringArray", v |-> ListVal(<<>>)]
        ELSE Array(value.s[1])

\* the ints handed to the codec, as decimal texts, each with whether it lies
\* in [-2^31, 2^31)
Ints ==
    { [s |-> <<"0">>, in32 |-> TRUE],
      [s |-> <<"1">>, in32 |-> TRUE],
      [s |-> <<"-","1">>, in32 |-> TRUE],
      [s |-> <<"9","9","9","9","9","9","9","9","9">>, in32 |-> TRUE],
      [s |-> <<"2","1","4","7","4","8","3","6","4","6">>, in32 |-> TRUE],
      [s |-> <<"2","1","4","7","4","8","3","6","4","7">>, in32 |-> TRUE],
      [s |-> <<"2","1","4","7","4","8","3","6","4","8">>, in32 |-> FALSE],
      [s |-> <<"2","1","4","7","4","8","3","6","4","9">>, in32 |-> FALSE],
      [s |-> <<"3","0","0","0","0","0","0","0","0","0">>, in32 |-> FALSE],
      [s |-> <<"4","2","9","4","9","6","7","2","9","6">>, in32 |-> FALSE],
      [s |-> <<"1","0","0","0","0","0","0","0","0","0","0">>, in32 |-> FALSE],
      [s |-> <<"-","2","1","4","7","4","8","3","6","4","7">>, in32 |-> TRUE],
      [s |-> <<"-","2","1","4","7","4","8","3","6","4","8">>, in32 |-> TRUE],
      [s |-> <<"-","2","1","4","7","4","8","3","6","4","9">>, in32 |-> FALSE],
      [s |-> <<"-","3","0","0","0","0","0","0","0","0","0">>, in32 |-> FALSE],
      [s |-> <<"-","1","0","0","0","0","0","0","0","0","0","0">>, in32 |-> FALSE],
      [s |-> <<"-","1","0","0","0","0","0","0","0","0","0">>, in32 |-> TRUE] }

\* the values the cursor's parser can produce
ParsedValues ==
    {[kind |-> "value", value |-> IntVal(i.s), in32 |-> i.in32, parsed |-> TRUE] : i \in Ints}
    \cup {[kind |-> "value", value |-> v, in32 |-> FALSE, parsed |-> TRUE] :
             v \in {NoneVal, BoolVal(TRUE), BoolVal(FALSE), FloatVal(<<"1",".","5">>),
                    StrVal(<<"x">>), StrVal(<<>>)}}

\* the values only a caller of OrmdbClient can hand over
CallerValues ==
    << BytesVal(<<IntVal(<<"0">>), IntVal(<<"2","5","5">>)>>), ListVal(<<>>), ListVal(<<BoolVal(TRUE)>>),
       ListVal(<<IntVal(<<"7">>), IntVal(<<"8">>)>>),
       ListVal(<<FloatVal(<<"1",".","5">>)>>), ListVal(<<StrVal(<<"x">>)>>),
       ListVal(<<NoneVal, IntVal(<<"7">>)>>) >>

CallerValue(i) ==
    [kind |-> "value", value |-> CallerValues[i], in32 |-> FALSE, parsed |-> FALSE]

\* [{"field": k, "value": self._convert_value(v)} for k, v in data.items()]
\* of OrmdbClient
ClientWireData(data) ==
    [i \in 1..Len(data) |->
        [field |-> data[i].field, value |-> ClientConvertValue(data[i].value)]]

\* the payloads of OrmdbClient.insert, update and delete; id is an optional
\* value (none: the key is absent)
ClientMutationPayload(kind, entity, id, data) ==
    [url |-> "/mutate", kind |-> kind, entity |-> entity, id |-> id, data |-> data]

\* OrmdbClient.insert(entity, data) when the gateway answers resp
ClientInsert(entity, data, resp) ==
    ClientMutate(ClientMutationPayload("Insert", entity, <<>>, ClientWireData(data)), resp)

\* OrmdbClient.update(entity, id, data) when the gateway answers resp
ClientUpdate(entity, id, data, resp) ==
    LET Identified(uuid) ==
            IF uuid.exc # "none" THEN ClientOutcome(<<>>, uuid.exc, <<>>, <<>>, <<>>)
            ELSE ClientMutate(ClientMutationPayload("Update", entity, <<uuid.bytes>>,
                                                    ClientWireData(data)), resp)
    IN  Identified(ClientHexToUuid(id))

\* OrmdbClient.delete(entity, id) when the gateway answers resp
ClientDelete(entity, id, resp) ==
    LET Identified(uuid) ==
            IF uuid.exc # "none" THEN ClientOutcome(<<>>, uuid.exc, <<>>, <<>>, <<>>)
            ELSE ClientMutate(ClientMutationPayload("Delete", entity, <<uuid.bytes>>, <<>>), resp)
    IN  Identified(ClientHexToUuid(id))

\* the data a caller hands to insert and update: {"name": "Alice", "age": 30}
CallerData ==
    << [field |-> <<"n","a","m","e">>, value |-> StrVal(<<"A","l","i","c","e">>)],
       [field |-> <<"a","g","e">>, value |-> IntVal(<<"3","0">>)] >>

\* the calls of OrmdbClient.insert, update and delete: the method, the
\* identifier and the answer of the gateway
ClientMutations ==
    {[kind |-> "mutation", method |-> "insert", id |-> <<>>, resp |-> r] :
        r \in 1..Len(ClientResponses)}
    \cup {[kind |-> "mutation", method |-> m, id |-> id, resp |-> r] :
            m \in {"update", "delete"},
            id \in {IdExample, Hyphenated(IdExample), SubSeq(IdExample, 1, 31) \o <<"g">>},
            r \in 1..Len(ClientResponses)}

\* ---- literals: next to its text each carries the rule that classifies it
\* and the Python value it stands for

Literals ==
    { [kind |-> "literal", text |-> <<"'","a","b","c","'">>, class |-> "quoted", value |-> StrVal(<<"a","b","c">>)],
      [kind |-> "literal", text |-> <<"\"","a","b","c","\"">>, class |-> "quoted", value |-> StrVal(<<"a","b","c">>)],
      [kind |-> "literal", text |-> <<"'","N","U","L","L","'">>, class |-> "quoted", value |-> StrVal(<<"N","U","L","L">>)],
      [kind |-> "literal", text |-> <<"'","t","r","u","e","'">>, class |-> "quoted", value |-> StrVal(<<"t","r","u","e">>)],
      [kind |-> "literal", text |-> <<"'","1","2","'">>, class |-> "quoted", value |-> StrVal(<<"1","2">>)],
      [kind |-> "literal", text |-> <<"\"","1",".","5","\"">>, class |-> "quoted", value |-> StrVal(<<"1",".","5">>)],
      [kind |-> "literal", text |-> <<"'","'">>, class |-> "quoted", value |-> StrVal(<<>>)],
      [kind |-> "literal", text |-> <<"'","a",",","b","'">>, class |-> "quoted", value |-> StrVal(<<"a",",","b">>)],
      [kind |-> "literal", text |-> <<" ","'","x","'"," ">>, class |-> "quoted", value |-> StrVal(<<"x">>)],
      [kind |-> "literal", text |-> <<"N","U","L","L">>, class |-> "null", value |-> NoneVal],
      [kind |-> "literal", text |-> <<"n","u","l","l">>, class |-> "null", value |-> NoneVal],
      [kind |-> "literal", text |-> <<"N","u","l","l">>, class |-> "null", value |-> NoneVal],
      [kind |-> "literal", text |-> <<" ","N","U","L","L"," ">>, class |-> "null", value |-> NoneVal],
      [kind |-> "literal", text |-> <<"T","R","U","E">>, class |-> "bool", value |-> BoolVal(TRUE)],
      [kind |-> "literal", text |-> <<"t","r","u","e">>, class |-> "bool", value |-> BoolVal(TRUE)],
      [kind |-> "literal", text |-> <<"F","A","L","S","E">>, class |-> "bool", value |-> BoolVal(FALSE)],
      [kind |-> "literal", text |-> <<"F","a","l","s","e">>, class |-> "bool", value |-> BoolVal(FALSE)],
      [kind |-> "literal", text |-> <<"1","2">>, class |-> "int", value |-> IntVal(<<"1","2">>)],
      [kind |-> "literal", text |-> <<"-","7">>, class |-> "int", value |-> IntVal(<<"-","7">>)],
      [kind |-> "literal", text |-> <<"+","5">>, class |-> "int", value |-> IntVal(<<"5">>)],
      [kind |-> "literal", text |-> <<"0","0","7">>, class |-> "int", value |-> IntVal(<<"7">>)],
      [kind |-> "literal", text |-> <<"0">>, class |-> "int", value |-> IntVal(<<"0">>)],
      [kind |-> "literal", text |-> <<" ","4","2"," ">>, class |-> "int", value |-> IntVal(<<"4","2">>)],
      [kind |-> "literal", text |-> <<"2","1","4","7","4","8","3","6","4","8">>, class |-> "int", value |-> IntVal(<<"2","1","4","7","4","8","3","6","4","8">>)],
      [kind |-> "literal", text |-> <<"1",".","5">>, class |-> "float", value |-> FloatVal(<<"1",".","5">>)],
      [kind |-> "literal", text |-> <<"-","0",".","2","5">>, class |-> "float", value |-> FloatVal(<<"-","0",".","2","5">>)],
      [kind |-> "literal", text |-> <<".","5">>, class |-> "float", value |-> FloatVal(<<".","5">>)],
      [kind |-> "literal", text |-> <<"1",".">>, class |-> "float", value |-> FloatVal(<<"1",".">>)],
      [kind |-> "literal", text |-> <<"1",".","5","e","3">>, class |-> "float", value |-> FloatVal(<<"1",".","5","e","3">>)],
      [kind |-> "literal", text |-> <<"1","e","5">>, class |-> "float", value |-> FloatVal(<<"1","e","5">>)],
      [kind |-> "literal", text |-> <<"1","E","5">>, class |-> "float", value |-> FloatVal(<<"1","E","5">>)],
      [kind |-> "literal", text |-> <<"2","e","-","3">>, class |-> "float", value |-> FloatVal(<<"2","e","-","3">>)],
      [kind |-> "literal", text |-> <<"a","b","c">>, class |-> "bare", value |-> StrVal(<<"a","b","c">>)],
      [kind |-> "literal", text |-> <<"1",".","2",".","3">>, class |-> "bare", value |-> StrVal(<<"1",".","2",".","3">>)],
      [kind |-> "literal", text |-> <<"'","a","b","c","\"">>, class |-> "bare", value |-> StrVal(<<"'","a","b","c","\"">>)],
      [kind |-> "literal", text |-> <<"1","2","a","b","c">>, class |-> "bare", value |-> StrVal(<<"1","2","a","b","c">>)],
      [kind |-> "literal", text |-> <<"-">>, class |-> "bare", value |-> StrVal(<<"-">>)],
      [kind |-> "literal", text |-> <<"1","e">>, class |-> "bare", value |-> StrVal(<<"1","e">>)],
      [kind |-> "literal", text |-> <<"e","5">>, class |-> "bare", value |-> StrVal(<<"e","5">>)],
      [kind |-> "literal", text |-> <<"n","u","l">>, class |-> "bare", value |-> StrVal(<<"n","u","l">>)],
      [kind |-> "literal", text |-> <<"x","'","y","'">>, class |-> "bare", value |-> StrVal(<<"x","'","y","'">>)] }

\* ---- INSERT statements, put together from a field list and a value list;
\* each list carries the number of its items, one more than its commas
\* that lie outside quotes

InsertFields ==
    << [text |-> <<"a">>, n |-> 1],
       [text |-> <<"a",",","b">>, n |-> 2],
       [text |-> <<"a",",","b",",","c">>, n |-> 3] >>

InsertValues ==
    << [text |-> <<"1",",","'","x","'">>, n |-> 2],
       [text |-> <<"1">>, n |-> 1],
       [text |-> <<"'","a",",","b","'",",","2">>, n |-> 2],
       [text |-> <<"\"","a",",","b","\"">>, n |-> 1],
       [text |-> <<"1",",",",","2">>, n |-> 3],
       [text |-> <<"1",",","2",",">>, n |-> 3],
       [text |-> <<"1",","," ">>, n |-> 2],
       [text |-> <<",","1">>, n |-> 2],
       [text |-> <<"'","a","\"","b",",","c","'",",","2">>, n |-> 2],
       [text |-> <<"1",",","2",",","3">>, n |-> 3] >>

\* INSERT INTO t (<fields>) VALUES (<values>)
InsertOf(f, v) ==
    [kind |-> "statement", shape |-> "insert",
     text |-> <<"I","N","S","E","R","T"," ","I","N","T","O"," ","t"," ","(">> \o InsertFields[f].text
              \o <<")"," ","V","A","L","U","E","S"," ","(">> \o InsertValues[v].text \o <<")">>,
     nfields |-> InsertFields[f].n, nvalues |-> InsertValues[v].n]

Inserts == {InsertOf(f, v) : f \in 1..Len(InsertFields), v \in 1..Len(InsertValues)}

\* ---- SELECT statements with a WHERE clause "<field> <op> <value>", put
\* together from a field, an operator as it is written with the op it
\* stands for, the blanks around it, and a value with what it reads as

WhereFields == << <<"a">>, <<"a","d","m","i","n">>, <<"a","l","i","k","e">> >>

WhereOperators ==
    << [text |-> <<"=">>, op |-> "eq", word |-> FALSE],
       [text |-> <<"!","=">>, op |-> "ne", word |-> FALSE],
       [text |-> <<"<",">">>, op |-> "ne", word |-> FALSE],
       [text |-> <<"<">>, op |-> "lt", word |-> FALSE],
       [text |-> <<">">>, op |-> "gt", word |-> FALSE],
       [text |-> <<"<","=">>, op |-> "le", word |-> FALSE],
       [text |-> <<">","=">>, op |-> "ge", word |-> FALSE],
       [text |-> <<"L","I","K","E">>, op |-> "like", word |-> TRUE],
       [text |-> <<"l","i","k","e">>, op |-> "like", word |-> TRUE],
       [text |-> <<"L","i","k","e">>, op |-> "like", word |-> TRUE],
       [text |-> <<"I","N">>, op |-> "in", word |-> TRUE],
       [text |-> <<"i","n">>, op |-> "in", word |-> TRUE] >>

WhereValues ==
    << [text |-> <<"1">>, value |-> IntVal(<<"1">>)],
       [text |-> <<"'","=","1","'">>, value |-> StrVal(<<"=","1">>)],
       [text |-> <<"'","x","'">>, value |-> StrVal(<<"x">>)] >>

WhereSpacing == << <<<<>>, <<>>>>, <<<<" ">>, <<" ">>>>, <<<<" "," ">>, <<>>>> >>

\* SELECT * FROM User WHERE <field><blanks><operator><blanks><value>
WhereOf(f, o, v, b) ==
    LET clause == WhereFields[f] \o WhereSpacing[b][1] \o WhereOperators[o].text
                  \o WhereSpacing[b][2] \o WhereValues[v].text
    IN  [kind |-> "statement", shape |-> "where", clause |-> clause,
         text |-> <<"S","E","L","E","C","T"," ","*"," ","F","R","O","M"," ","U","s","e","r"," ","W","H","E","R","E"," ">> \o clause,
         field |-> WhereFields[f], written |-> WhereOperators[o].text,
         op |-> WhereOperators[o].op, value |-> WhereValues[v].value]

\* an operator that is a word needs a blank after the field
Wheres ==
    UNION {{WhereOf(f, o, v, b) :
                f \in 1..Len(WhereFields), v \in 1..Len(WhereValues),
                b \in {x \in 1..Len(WhereSpacing) :
                           WhereOperators[o].word => WhereSpacing[x][1] # <<>>}} :
           o \in 1..Len(WhereOperators)}

\* ---- UPDATE and DELETE statements with the identifier of the example,
\* quoted or not, and the text that follows it, if any

MutationHeads ==
    << <<"D","E","L","E","T","E"," ","F","R","O","M"," ","U","s","e","r"," ","W","H","E","R","E"," ","i","d","=">>,
       <<"U","P","D","A","T","E"," ","t"," ","S","E","T"," ","a","=","1"," ","W","H","E","R","E"," ","i","d"," ","="," ">> >>

QuotedIds == << <<"'">> \o IdExample \o <<"'">>, <<"\"">> \o IdExample \o <<"\"">>, IdExample >>

TextsAfterId ==
    << <<>>,
       <<" ","O","R"," ","x","=","1">>,
       <<" ","A","N","D"," ","n","a","m","e","=","'","b","o","b","'">>,
       <<";"," ","D","R","O","P"," ","T","A","B","L","E"," ","U","s","e","r">>,
       <<"x">> >>

\* <UPDATE ... | DELETE ...> WHERE id = <identifier><extra>
WithTextAfterId(h, i, e) ==
    [kind |-> "statement", shape |-> "trailing", head |-> h,
     text |-> MutationHeads[h] \o QuotedIds[i] \o TextsAfterId[e],
     extra |-> TextsAfterId[e]]

MutationsWithTextAfterId ==
    {WithTextAfterId(h, i, e) : h \in 1..Len(MutationHeads), i \in 1..Len(QuotedIds),
                                e \in 1..Len(TextsAfterId)}

\* the calls of OrmdbClient.query: the arguments and the answer of the gateway
Queries ==
    {[kind |-> "query", args |-> QueryArgs(fields, <<>>, <<>>, limit, offset), resp |-> r] :
        fields \in {<<>>, << <<>> >>, << <<"id", "name">> >>},
        limit \in {<<>>, <<0>>, <<5>>}, offset \in {<<>>, <<0>>, <<2>>},
        r \in 1..Len(ClientResponses)}

UnitInputs ==
    Selects \cup Mutations \cup Identifiers \cup ParsedValues \cup Queries
        \cup ClientMutations \cup Literals \cup Inserts \cup Wheres
        \cup MutationsWithTextAfterId

\* one input is drawn; the cursor stays as constructed
UnitInit ==
    /\ Constructed
    /\ applied = "none"
    /\ \/ applied_to \in UnitInputs
       \/ \E i \in 1..Len(CallerValues) : applied_to = CallerValue(i)
    /\ yielded = <<>>

\* function name is applied to the input, of the kind it takes, and yields out
Applied(name, kind, out) ==
    /\ applied = "none"
    /\ applied_to.kind = kind
    /\ applied' = name
    /\ yielded' = out
    /\ UNCHANGED <<applied_to, cursorVars, callVars, replaced, fetched, drained, drain,
                   connection_closed>>

\* Cursor.execute(text) up to its request
ApplyPrepare == Applied("Prepare", "statement", Prepare(applied_to.text, <<>>))

\* OrmdbClient.query(**args)
ApplyClientQuery ==
    Applied("ClientQuery", "query", ClientQuery(applied_to.args, ClientResponses[applied_to.resp]))

\* Cursor._parse_sql_value(text)
ApplyParseSqlValue == Applied("ParseSqlValue", "literal", ParseSqlValue(applied_to.text))

\* Cursor._hex_to_uuid(text)
ApplyHexToUuid == Applied("HexToUuid", "identifier", HexToUuid(applied_to.text))

\* OrmdbClient._hex_to_uuid(text)
ApplyClientHexToUuid ==
    Applied("ClientHexToUuid", "identifier", ClientHexToUuid(applied_to.text))

\* Cursor._convert_value(value), of a value the parser produced
ApplyConvertValue ==
    /\ applied_to.kind = "value" /\ applied_to.parsed
    /\ Applied("ConvertValue", "value", ConvertValue(applied_to.value))

\* OrmdbClient._convert_value(value)
ApplyClientConvertValue ==
    Applied("ClientConvertValue", "value", ClientConvertValue(applied_to.value))

\* OrmdbClient.insert, update or delete
ApplyClientMutation ==
    LET Mutated(method, resp) ==
            IF method = "insert" THEN ClientInsert("User", CallerData, resp)
            ELSE IF method = "update"
            THEN ClientUpdate("User", applied_to.id, CallerData, resp)
            ELSE ClientDelete("User", applied_to.id, resp)
    IN  /\ applied_to.kind = "mutation"
        /\ Applied("ClientMutation", "mutation",
                   Mutated(applied_to.method, ClientResponses[applied_to.resp]))

UnitNext ==
    \/ ApplyPrepare
    \/ ApplyParseSqlValue
    \/ ApplyConvertValue
    \/ ApplyClientConvertValue
    \/ ApplyHexToUuid
    \/ ApplyClientHexToUuid
    \/ ApplyClientQuery
    \/ ApplyClientMutation

UnitSpec == UnitInit /\ [][UnitNext]_vars

\* the calls that return rows
Fetches == {"fetchone", "fetchmany", "fetchall"}

\* the result a cursor holds: row buffer, read position, description,
\* rowcount and lastrowid
ResultOf(c) == <<c.rows, c.row_index, c.description, c.rowcount, c.last_inserted_id>>

\* ceil(a / b) for a >= 0 and b >= 1
CeilDiv(a, b) == (a + b - 1) \div b

\* C1: after an execute that raised, at whatever stage, the cursor holds no
\* result at all: the row buffer is empty, the read position is 0,
\* description is None, rowcount is -1 and lastrowid is None.
C1_FailedExecuteLeavesNoResult ==
    (call = "execute" /\ exc # "none") => ResultOf(Cur) = ResultOf(NewCursor)

\* C2: a loop of fetchmany(n), n >= 1, run from read position 0 until a batch
\* is empty returns, concatenated, exactly the rows one fetchall() returns
\* from position 0, in the same order, and never makes more than
\* ceil(rows / n) + 1 calls, rows being the number of rows of the result set.
C2_FetchmanyLoopEqualsFetchall ==
    drain.state # "idle" =>
        /\ drain.calls <= CeilDiv(Len(drain.all), drain.n) + 1
        /\ (drain.state = "done" => drain.acc = drain.all)

\* a loop of fetchmany(2) over a result set of three rows has ended
C2_Witness ==
    /\ drain.state = "done"
    /\ drain.n = 2
    /\ Len(drain.all) = 3
    /\ drain.acc = rows
    /\ drain.calls = 3

\* C3: fetchone raises nothing and leaves the row buffer alone; below the row
\* count it returns the row at the read position and advances the position
\* by one, otherwise it returns None and leaves the position where it is.
\* So when fetchone returns None on an open cursor, every row of the buffer
\* has been returned exactly once, in order.
C3_FetchoneReturnsEachRowOnce ==
    /\ []((call = "fetchone" /\ ret = <<>> /\ ~closed) => fetched = rows)
    /\ [][call' = "fetchone" =>
            /\ exc' = "none"
            /\ rows' = rows
            /\ IF row_index < Len(rows)
               THEN ret' = <<rows[row_index + 1]>> /\ row_index' = row_index + 1
               ELSE ret' = <<>> /\ row_index' = row_index]_vars

\* fetchone returns None after the three rows of a result set were returned
C3_Witness ==
    /\ call = "fetchone"
    /\ ret = <<>>
    /\ ~closed
    /\ ~drained
    /\ Len(rows) = 3
    /\ fetched = rows

\* C4, as the claim states it: fetchmany(n), n >= 0 (arraysize when no size
\* is given), returns exactly min(n, rowcount - position) rows, those at
\* positions position .. position + k - 1, and advances the position by k.
C4_FetchmanyReturnsMinOfSizeAndRowcount ==
    [][(call' = "fetchmany" /\ (size_given' = <<>> \/ size_given'[1] >= 0)) =>
          LET n == IF size_given' = <<>> THEN arraysize ELSE size_given'[1]
              k == MinOf(n, rowcount - row_index)
          IN  /\ Len(ret') = k
              /\ ret' = SubSeq(rows, row_index + 1, row_index + k)
              /\ row_index' = row_index + k]_vars

\* C4, amended: fetchmany(n), n >= 0 (arraysize, 1 on a new cursor, when
\* no size is given), returns exactly k = max(0, min(n, buffered - position))
\* rows, buffered being the number of rows in the row buffer: those at
\* positions position .. position + k - 1, and advances the position by k.
C4_FetchmanyReturnsMinOfSizeAndBuffered ==
    /\ [](call = "init" => arraysize = 1)
    /\ [][(call' = "fetchmany" /\ (size_given' = <<>> \/ size_given'[1] >= 0)) =>
            LET n == IF size_given' = <<>> THEN arraysize ELSE size_given'[1]
                k == MaxOf(0, MinOf(n, Len(rows) - row_index))
            IN  /\ Len(ret') = k
                /\ ret' = SubSeq(rows, row_index + 1, row_index + k)
                /\ row_index' = row_index + k
                /\ rows' = rows]_vars

\* fetchmany(2) returned the one row left of a result set of three rows
C4_Witness ==
    /\ call = "fetchmany"
    /\ size_given = <<2>>
    /\ Len(rows) = 3
    /\ ret = <<rows[3]>>
    /\ row_index = 3

\* C5: fetchall returns the rows from the read position to the end of the
\* row buffer, in order, and leaves the position at the row count; every
\* fetchone, fetchmany and fetchall after it, until the next execute,
\* returns no row.
C5_FetchallExhausts ==
    [][/\ call' = "fetchall" =>
            /\ ret' = SubSeq(rows, row_index + 1, Len(rows))
            /\ rows' = rows
            /\ row_index' = Len(rows)
       /\ (drained /\ call' \in Fetches) => ret' = <<>>]_vars

\* fetchall returned the two rows left of a result set of three rows
C5_Witness ==
    /\ call = "fetchall"
    /\ Len(rows) = 3
    /\ ret = SubSeq(rows, 2, 3)
    /\ fetched = rows
    /\ row_index = 3

\* C6: an execute on an open cursor raises what it raises on a new cursor,
\* whatever result it finds there, and after a successful one the row
\* buffer, the read position, description, rowcount and lastrowid are those
\* the same execute leaves on a new cursor; the rows returned since are the
\* first rows of that row buffer.
C6_ExecuteDiscardsPreviousResult ==
    LET fresh == Execute(NewCursor, operation, parameters,
                         IF response = 0 THEN 1 ELSE response)
    IN  /\ (call = "execute" /\ ~closed) =>
              /\ exc = fresh.exc
              /\ exc = "none" => ResultOf(Cur) = ResultOf(fresh.c)
        /\ ~closed => fetched = SubSeq(rows, 1, row_index)

\* a successful execute replaced the result the cursor held
C6_Witness ==
    /\ call = "execute"
    /\ exc = "none"
    /\ replaced
    /\ Len(rows) = 1
    /\ row_index = 0

\* the statements of the corpus that match no supported grammar shape or
\* name no valid identifier
Malformed ==
    {SelectNoFrom, SelectBadWhere, SelectBadLimit, InsertMismatch, UpdateNoAssign,
     UpdateShortId, DeleteNoWhere, DeleteNonHexId, DropTable}

\* C7: an execute that fails on the grammar of the statement or on its
\* identifier raises before any request is sent.
C7_GrammarFailuresSendNothing ==
    (call = "execute" /\ (stage \in {"parse", "identifier"}
                          \/ Corpus[operation] \in Malformed)) =>
        exc # "none" /\ posted = <<>>

\* an execute on an open cursor failed on the identifier of its statement
C7_Witness ==
    /\ call = "execute"
    /\ stage = "identifier"
    /\ Corpus[operation] = DeleteNonHexId
    /\ ~closed
    /\ posted = <<>>

\* C8: no execute sends more than one request; an execute on an open cursor
\* of a SELECT, INSERT, UPDATE or DELETE that passes parsing and validation
\* sends exactly one, and a request that fails is raised as it is, not sent
\* again.
C8_ExactlyOneRequest ==
    /\ call \notin {"execute", "executemany"} => posted = <<>>
    /\ call = "execute" =>
          /\ Len(posted) <= 1
          /\ (/\ ~closed
              /\ PrepareTable[operation][parameters].exc = "none"
              /\ PrepareTable[operation][parameters].stmt # "COMMENT") => Len(posted) = 1
          /\ stage = "network" => exc = "OperationalError" /\ Len(posted) = 1

\* the one request of an execute failed in the transport
C8_Witness ==
    /\ call = "execute"
    /\ stage = "network"
    /\ response = 1
    /\ Len(posted) = 1

\* C9: a SELECT whose WHERE clause joins conditions with AND or OR fails
\* with ProgrammingError and sends no request.
C9_CombinedConditionsRejected ==
    (call = "execute" /\ ~closed /\ Corpus[operation] \in {SelectAnd, SelectOr}) =>
        exc = "ProgrammingError" /\ posted = <<>>

\* the assignments an INSERT or UPDATE of the corpus writes, in source
\* order, each as the entry the data list holds for it
Written(statement) ==
    LET One == [field |-> <<"a">>, value |-> ConvertValue(IntVal(<<"1">>))]
        X   == [field |-> <<"b">>, value |-> ConvertValue(StrVal(<<"x">>))]
        Two == [field |-> <<"a">>, value |-> ConvertValue(IntVal(<<"2">>))]
    IN  IF statement \in {InsertDuplicate, UpdateDuplicate} THEN <<One, X, Two>>
        ELSE <<One, X>>

\* C10: the data list of an Insert or Update request holds one entry per
\* assignment of the statement, in source order, a field named twice
\* included.
C10_DataListKeepsEveryAssignment ==
    (call = "execute" /\ posted # <<>> /\ posted[1].kind \in {"Insert", "Update"}) =>
        posted[1].data = Written(Corpus[operation])

\* the pagination object a request carries for a limit and an offset, each
\* given or not: none when neither is given, else the given limit (100 when
\* none is given) and the given offset (0 when none is given)
PaginationFor(limit, offset) ==
    IF limit = <<>> /\ offset = <<>> THEN <<>>
    ELSE <<[limit  |-> IF limit # <<>> THEN limit[1] ELSE 100,
            offset |-> IF offset # <<>> THEN offset[1] ELSE 0]>>

\* C11: the query payload carries a pagination object exactly when a limit or
\* an offset is given; its limit is the given limit, 0 included, and 100 when
\* none is given, its offset the given offset and 0 when none is given; in
\* the request of the cursor and in that of OrmdbClient.query.
C11_PaginationCarriesWhatWasGiven ==
    /\ (applied = "Prepare" /\ applied_to.shape = "select" /\ yielded.exc = "none") =>
          yielded.payload.pagination = PaginationFor(applied_to.limit.n, applied_to.offset.n)
    /\ applied = "ClientQuery" =>
          yielded.posted[1].pagination = PaginationFor(applied_to.args.limit, applied_to.args.offset)

\* the number a hexadecimal digit stands for, in either letter case
DigitRank(c) ==
    LET lower == <<"0","1","2","3","4","5","6","7","8","9","a","b","c","d","e","f">>
        upper == <<"0","1","2","3","4","5","6","7","8","9","A","B","C","D","E","F">>
    IN  CHOOSE n \in 0..15 : c = lower[n + 1] \/ c = upper[n + 1]

\* the 16 bytes that 32 hexadecimal digits stand for, paired most
\* significant digit first
BytesOf(hex) ==
    [i \in 1..16 |-> 16 * DigitRank(hex[2 * i - 1]) + DigitRank(hex[2 * i])]

\* C12: an identifier of 32 hexadecimal digits, written with or without
\* hyphens, decodes to the 16 bytes its digits pair up to, most significant
\* digit first, in the cursor and in OrmdbClient alike; so both spellings of
\* an identifier decode to the same bytes.
C12_IdentifierDecodesToItsBytes ==
    (applied \in {"HexToUuid", "ClientHexToUuid"} /\ applied_to.valid) =>
        yielded.exc = "none" /\ yielded.bytes = BytesOf(applied_to.hex)

\* C13: an UPDATE or DELETE whose identifier is not 32 hexadecimal digits
\* once its hyphens are removed fails with ProgrammingError, and the id of
\* every Update or Delete request is 16 integers in 0..255.
C13_InvalidIdentifierRejected ==
    (applied = "Prepare" /\ applied_to.shape \in {"update", "delete"}) =>
        /\ ~applied_to.id.valid => yielded.exc = "ProgrammingError"
        /\ yielded.exc = "none" =>
              /\ applied_to.id.valid
              /\ Len(yielded.payload.id[1]) = 16
              /\ \A i \in 1..16 : yielded.payload.id[1][i] \in 0..255

\* C14: the value codec of the cursor and that of OrmdbClient tag an int
\* that is no bool Int32 exactly when it lies in [-2^31, 2^31), and Int64
\* otherwise, and pass the int on as it is.
C14_IntTaggedByRange ==
    (applied \in {"ConvertValue", "ClientConvertValue"} /\ applied_to.value.t = "int") =>
        /\ yielded.tag = IF applied_to.in32 THEN "Int32" ELSE "Int64"
        /\ yielded.v = applied_to.value

\* the codec of the cursor tagged 2^31, the first int past Int32, Int64
C14_Witness ==
    /\ applied = "ConvertValue"
    /\ applied_to.value = IntVal(<<"2","1","4","7","4","8","3","6","4","8">>)
    /\ yielded.tag = "Int64"

\* the statement kind of the most recent execute
Statement == PrepareTable[operation][parameters].stmt

\* the rows of the first i blocks of a response, in the order of the
\* response
RECURSIVE RowsUpTo(_, _)
RowsUpTo(blocks, i) ==
    IF i = 0 THEN <<>> ELSE RowsUpTo(blocks, i - 1) \o blocks[i]

\* C15: a successful SELECT leaves in the row buffer one tuple per row of the
\* response, the rows of all blocks in block order and, within a block, in
\* row order, each tuple the values of its row in the row's key order; the
\* description names the keys of the first of these rows, in that row's key
\* order; a response without rows leaves an empty buffer and no description.
C15_RowsOfAllBlocksInOrder ==
    (call = "execute" /\ exc = "none" /\ Statement = "SELECT") =>
        LET blocks == Responses[response].body.entities
            all    == RowsUpTo(blocks, Len(blocks))
        IN  /\ Len(rows) = Len(all)
            /\ \A i \in 1..Len(all) :
                  /\ Len(rows[i]) = Len(all[i].items)
                  /\ \A k \in 1..Len(all[i].items) : rows[i][k] = all[i].items[k].value
            /\ all = <<>> => description = <<>>
            /\ all # <<>> =>
                  /\ description # <<>>
                  /\ Len(description[1]) = Len(all[1].items)
                  /\ \A k \in 1..Len(all[1].items) :
                        description[1][k][1] = all[1].items[k].key

\* a SELECT was answered by an empty block, a block of one row and another
\* block of one row whose keys come in another order
C15_Witness ==
    /\ call = "execute"
    /\ exc = "none"
    /\ Statement = "SELECT"
    /\ rows = << <<"dee", "u4">>, <<"u1", "ann">> >>
    /\ description[1][1][1] = "name"

\* C16: a successful INSERT, UPDATE or DELETE leaves the row buffer empty and
\* no description, rowcount the affected count of the response (0 when it
\* has none) and lastrowid the first entry of inserted_ids of the response,
\* None when that list is empty.
C16_MutationSurfacesAffectedAndFirstId ==
    (call = "execute" /\ exc = "none" /\ Statement \in {"INSERT", "UPDATE", "DELETE"}) =>
        LET body == Responses[response].body
        IN  /\ rows = <<>>
            /\ row_index = 0
            /\ description = <<>>
            /\ rowcount = IF body.affected # <<>> THEN body.affected[1] ELSE 0
            /\ last_inserted_id = IF body.inserted_ids # <<>>
                                  THEN <<body.inserted_ids[1]>> ELSE <<>>

\* C17: to a status that is no success OrmdbClient.query and the mutations of
\* OrmdbClient raise the error of their endpoint (QueryError, MutationError)
\* with the message and code of a body that carries them, ConnectionError for
\* an empty body and for one that is no JSON, and nothing else.
C17_FailureClassifiedByBody ==
    LET resp   == ClientResponses[applied_to.resp]
        domain == IF applied = "ClientQuery" THEN "QueryError" ELSE "MutationError"
    IN  (/\ applied \in {"ClientQuery", "ClientMutation"}
         /\ yielded.posted # <<>>
         /\ resp.kind = "status_error") =>
            /\ yielded.exc \in {domain, "ConnectionError"}
            /\ (/\ resp.content = "json" /\ resp.error.is_dict
                 /\ resp.error.message # <<>> /\ resp.error.code # <<>>) =>
                    /\ yielded.exc = domain
                    /\ yielded.message = resp.error.message
                    /\ yielded.code = resp.error.code
            /\ resp.content \in {"empty", "not_json"} => yielded.exc = "ConnectionError"

\* a SELECT of the statement family was translated
Translated == applied = "Prepare" /\ applied_to.shape = "select"

\* C18: the ORDER BY clause of a SELECT becomes one {field, direction} entry
\* per item, in source order: direction desc for an item with DESC, asc
\* otherwise, field the name as it is written, in its letter case.
C18_OrderByKeepsFieldAsWritten ==
    (Translated /\ yielded.exc = "none" /\ applied_to.order.order # <<>>) =>
        yielded.payload.order_by = <<applied_to.order.order>>

\* C19: a SELECT whose field list is * or empty is accepted and its payload
\* has no fields key; one with an explicit field list is accepted and its
\* payload lists the fields in source order; the payload names the root
\* entity, and it carries a filter and an order_by exactly when the
\* statement has a WHERE and an ORDER BY clause.
C19_FieldListAndOptionalKeys ==
    Translated =>
        /\ (applied_to.limit.integer /\ applied_to.offset.integer) => yielded.exc = "none"
        /\ yielded.exc = "none" =>
              /\ yielded.payload.fields =
                    IF applied_to.fields.fields = <<>> THEN <<>>
                    ELSE <<applied_to.fields.fields>>
              /\ yielded.payload.entity # <<>>
              /\ yielded.payload.filter = applied_to.where.filter
              /\ (yielded.payload.order_by # <<>>) = (applied_to.order.order # <<>>)

\* C20: a SELECT whose LIMIT or OFFSET token is no integer fails with
\* ProgrammingError; LIMIT n, LIMIT n OFFSET m and OFFSET m alone, n and m
\* integers, are accepted and leave the entity the name that follows FROM.
C20_LimitAndOffsetTokens ==
    (Translated /\ ~applied_to.fields.empty) =>
        IF applied_to.limit.integer /\ applied_to.offset.integer
        THEN /\ yielded.exc = "none"
             /\ yielded.payload.entity = <<"U","s","e","r">>
        ELSE yielded.exc = "ProgrammingError"

\* a value of a request is tagged: an object of one key, its tag
IsWireValue(x) == DOMAIN x = {"tag", "v"}

\* C21: every literal of a translated statement is sent as a tagged value:
\* the value of the filter of a SELECT and every value of the data of an
\* INSERT or UPDATE; INSERT INTO t (a,b) VALUES (1,'x') sends the data
\* [{field a, value {Int32: 1}}, {field b, value {String: x}}].
C21_EveryLiteralIsTagged ==
    (call = "execute" /\ posted # <<>>) =>
        /\ posted[1].filter # <<>> => IsWireValue(posted[1].filter[1].value)
        /\ \A i \in 1..Len(posted[1].data) : IsWireValue(posted[1].data[i].value)
        /\ Corpus[operation] = InsertTwo =>
              posted[1].data =
                  << [field |-> <<"a">>, value |-> [tag |-> "Int32", v |-> IntVal(<<"1">>)]],
                     [field |-> <<"b">>, value |-> [tag |-> "String", v |-> StrVal(<<"x">>)]] >>

\* C22: a literal is classified by the first rule that matches: text in
\* single or double quotes is a string, the quotes stripped, whatever it
\* reads; else NULL, in any letter case, is None; else TRUE or FALSE, in any
\* letter case, is a bool; else text that reads as an integer is an int;
\* else text that reads as a floating-point number, 1e5 included, is a
\* float; else the text is a string as it is.
C22_LiteralClassifiedByFirstRule ==
    applied = "ParseSqlValue" => yielded = applied_to.value

\* C23: an INSERT whose field list and value list differ in the number of
\* their items, the value list split at every comma outside quotes, a
\* trailing or doubled one included, fails with ProgrammingError and sends
\* nothing; an INSERT that is accepted sends one value per field.
C23_InsertCountsMustMatch ==
    (applied = "Prepare" /\ applied_to.shape = "insert") =>
        /\ applied_to.nfields # applied_to.nvalues =>
              yielded.exc = "ProgrammingError" /\ yielded.payload = NoPayload
        /\ yielded.exc = "none" => Len(yielded.payload.data) = applied_to.nfields

\* C24: an execute, on an open cursor, of a text that begins with -- raises
\* nothing and sends nothing, and leaves the cursor without a result: the
\* row buffer empty, the read position 0, description None, rowcount -1 and
\* lastrowid None.
C24_CommentLineIsIgnored ==
    (call = "execute" /\ ~closed /\ Corpus[operation] = CommentLine) =>
        /\ exc = "none"
        /\ posted = <<>>
        /\ ResultOf(Cur) = ResultOf(NewCursor)

\* a comment line was executed on an open cursor that held a result
C24_Witness ==
    /\ call = "execute"
    /\ ~closed
    /\ Corpus[operation] = CommentLine
    /\ replaced
    /\ exc = "none"
    /\ rowcount = -1

C26_TextAfterIdentifierRejected ==
    (applied = "Prepare" /\ applied_to.shape = "trailing") =>
        IF applied_to.extra = <<>> THEN yielded.exc = "none"
        ELSE yielded.exc = "ProgrammingError" /\ yielded.payload = NoPayload

\* C27: in every state of a cursor the read position lies between 0 and
\* the number of rows in the row buffer.
C27_PositionWithinBuffer == 0 <= row_index /\ row_index <= Len(rows)

\* C28: a closed cursor stays closed; every execute on it, alone or as the
\* first of an executemany, raises InterfaceError, sends nothing and leaves
\* the cursor as it is; every fetchone, fetchmany and fetchall on it returns
\* no row; a closed connection stays closed and its cursor() raises
\* InterfaceError.
C28_ClosingIsTerminal ==
    [][/\ closed => closed'
       /\ (closed /\ call' = "execute") =>
             /\ exc' = "InterfaceError"
             /\ posted' = <<>>
             /\ cursorVars' = cursorVars
       /\ (closed /\ call' = "executemany" /\ parameters' # 0) =>
             /\ exc' = "InterfaceError"
             /\ posted' = <<>>
             /\ cursorVars' = cursorVars
       /\ (closed /\ call' \in Fetches) => ret' = <<>>
       /\ connection_closed => connection_closed'
       /\ (connection_closed /\ call' = "Connection.cursor") => exc' = "InterfaceError"]_vars

\* an execute on a closed cursor of a closed connection raised
\* InterfaceError and left the rowcount and the read position of the result
\* the cursor held when it was closed
C28_Witness ==
    /\ call = "execute"
    /\ closed
    /\ connection_closed
    /\ exc = "InterfaceError"
    /\ posted = <<>>
    /\ rowcount = 3
    /\ row_index = 2

\* C29: fetchmany with a size of 0 or less returns no row and leaves the
\* read position where it is.
C29_NonPositiveSizeFetchesNothing ==
    [][(call' = "fetchmany" /\ size_given' # <<>> /\ size_given'[1] <= 0) =>
          ret' = <<>> /\ row_index' = row_index]_vars

\* C30: after a successful SELECT rowcount is the number of rows in the row
\* buffer, the rows of all blocks of the response; description is None
\* exactly when there is none, and has otherwise one 7-tuple per key of the
\* first row; no fetchone, fetchmany or fetchall changes rowcount or
\* description.
C30_RowcountAndDescriptionOfSelect ==
    /\ []((call = "execute" /\ exc = "none" /\ Statement = "SELECT") =>
            LET blocks == Responses[response].body.entities
                all    == RowsUpTo(blocks, Len(blocks))
            IN  /\ rowcount = Len(rows)
                /\ rowcount = Len(all)
                /\ (description = <<>>) = (rowcount = 0)
                /\ rowcount > 0 =>
                      /\ Len(description[1]) = Len(all[1].items)
                      /\ \A k \in 1..Len(description[1]) : Len(description[1][k]) = 7)
    /\ [][call' \in Fetches => rowcount' = rowcount /\ description' = description]_vars

\* fetchmany returned two of the three rows of a SELECT and left rowcount
\* and description as the SELECT set them
C30_Witness ==
    /\ call = "fetchmany"
    /\ ~closed
    /\ Len(rows) = 3
    /\ Len(ret) = 2
    /\ rowcount = 3
    /\ Len(description[1]) = 2

====
